---- MODULE Spec2Model ----
(***************************************************************************)
(* A model of the request / pagination / authentication core of wpjs-api:  *)
(*   - makeApiRequest and the apiGet / apiPost / apiPut / apiDelete        *)
(*     wrappers (src/src/api/wordpress/http.ts),                           *)
(*   - createPaginationHelpers: listAll and pages                          *)
(*     (src/src/api/wordpress/utils.ts),                                   *)
(*   - the list operations and their pagination metadata,                  *)
(*   - createAuth (src/unnamed/part_001),                                  *)
(*   - the pure functions: the AuthProviders (src/unnamed/part_002),       *)
(*     normalizeUrl / buildSearchParams / buildUrl (http.ts) and           *)
(*     WPApiError (src/src/api/wordpress/errors.ts),                       *)
(*   - sitemapIndex and sitemap of createYoastEndpoints                    *)
(*     (src/src/api/plugins/yoast/endpoints.ts),                           *)
(*   - several makeApiRequest calls running with one AuthResponse.         *)
(* Each subsystem has its own specification; the variables of the other    *)
(* subsystems are parked at a fixed value and left unchanged.              *)
(*                                                                         *)
(* Modelling assumption: the caller-supplied hooks (beforeRequest,         *)
(* afterRequest, shouldRefresh, refresh) complete normally; whether each   *)
(* hook exists, and what shouldRefresh answers, is unconstrained.          *)
(***************************************************************************)
EXTENDS Integers, Sequences, FiniteSets, TLC

VARIABLES
  \* ---- makeApiRequest (http.ts) ----
  config,    \* the ApiRequestConfig of the call
  auth,      \* the AuthResponse: its headers and which hooks exist
  pc,        \* position of the call inside makeApiRequest
  response,  \* the Response the transport resolved with (status 0: none yet)
  sent,      \* the RequestInit of every fetch() of the call, in order
  log,       \* every hook invocation, send and transport answer, in order
  outcome,   \* how the call settled
  \* ---- createPaginationHelpers(listFn).listAll (utils.ts) ----
  laParams,     \* the params the caller handed to listAll
  laOptions,    \* the second argument (RequestOptions) the caller handed over
  laTotalPages, \* pagination.totalPages that the source reports for page 1
  laPc,         \* position of the call inside listAll
  laCalls,      \* the listFn invocations: what reaches the transport, in order
  laFetch,      \* per page: "none", "pending", "ok" or "failed"
  laOrder,      \* the pages in the order their fetches completed
  laResult,     \* how listAll settled
  \* ---- the list operations and the pages() iterators ----
  pgKind,       \* what the caller called: "list", "helperPages", "factoryPages"
                \* or "factoryListAll"
  pgList,       \* the list function: "generic" (apiGetPaginated) or "record"
  pgParams,     \* the params the caller handed over
  pgPage,       \* the iterator's page counter
  pgPc,         \* position inside the list call or the iterator
  pgInFlight,   \* list requests sent and not yet answered
  pgRequested,  \* params.page of every list request, in order
  pgYielded,    \* the pagination of every Paginated Result handed to the caller
                \* (of a sequential listAll: to its loop)
  pgCalls,      \* the params of every list request, in order
  pgHeaders,    \* the headers of every answer, in order
  pgItems,      \* the items a sequential listAll has collected
  \* ---- createAuth ----
  caMethod,      \* config.method
  caCredentials, \* config.credentials: whether given, and the keys it has
  caResult,      \* what createAuth did
  \* ---- one application of a pure function, or one sitemap call ----
  fnPc,          \* "off", "call", "fetch" (a sitemap request in flight) or "done"
  input,         \* the arguments of the application
  output,        \* what the function returned or threw
  \* ---- concurrent makeApiRequest calls sharing one AuthResponse ----
  ccAuth,        \* the credential in auth.headers: the number of the token
  ccPc,          \* per request: its position inside makeApiRequest
  ccSent,        \* per request: the credential each of its sends carried
  ccAnswers,     \* per request: the status of each response it received
  ccRefreshes    \* per request: how often it invoked auth.refresh

laVars ==
  <<laParams, laOptions, laTotalPages, laPc, laCalls, laFetch, laOrder, laResult>>

pgVars ==
  <<pgKind, pgList, pgParams, pgPage, pgPc, pgInFlight, pgRequested, pgYielded,
    pgCalls, pgHeaders, pgItems>>

caVars == <<caMethod, caCredentials, caResult>>

reqVars == <<config, auth, pc, response, sent, log, outcome>>

fnVars == <<fnPc, input, output>>

ccVars == <<ccAuth, ccPc, ccSent, ccAnswers, ccRefreshes>>

\* no function is being applied
ParkFn == fnPc = "off" /\ input = "none" /\ output = "none"

\* ------------------------------------------------------------------ bounds

\* fetch() invocations of one makeApiRequest call the model follows
MaxSends == 3

\* the largest totalPages a source reports
MaxPages == 3

\* list requests of one pages() iteration the model follows
MaxFetches == 4

\* makeApiRequest calls running at the same time with one AuthResponse
NumRequests == 2

\* responses calling for a refresh that the transport gives to those calls
MaxRefusals == 2

\* ------------------------------------------------------------- the inputs

NoSignal == "undefined"
Signals == {NoSignal, "signal"}

\* statuses the transport answers with: OK, auth failure, not found, server error
Statuses == {200, 401, 404, 500}

\* what fetch() rejects with: an abort caused by the signal, or a network error
AbortError == [name |-> "AbortError", message |-> "Aborted"]
NetworkError == [name |-> "Error", message |-> "Network error"]

NoHeaders == [k \in {} |-> ""]

\* {...f, ...g}: the keys of both, g's value where both have the key
Spread(f, g) ==
  [k \in DOMAIN f \cup DOMAIN g |-> IF k \in DOMAIN g THEN g[k] ELSE f[k]]

Header(k, v) == [x \in {k} |-> v]

\* Response.ok
Ok(status) == status >= 200 /\ status <= 299

\* ------------------------------------------------- the wrappers of http.ts

\* buildUrl(baseUrl, path, params) of the call (http.ts 114), as a sequence
\* of tokens; every call of the model has this baseUrl and path and no params
RequestUrl ==
  <<"https", ":", "/", "/", "site.com", "/", "wp", "/", "v2", "/", "posts">>

Config(api, method, body, headers, signal) ==
  [api |-> api, method |-> method, body |-> body, headers |-> headers,
   signal |-> signal, url |-> RequestUrl]

apiGet(signal) == Config("apiGet", "GET", FALSE, NoHeaders, signal)

apiPost(body, signal) == Config("apiPost", "POST", body, NoHeaders, signal)

\* mutant: the update is sent as a native PUT without the override header
apiPutNative(body, signal) == Config("apiPut", "PUT", body, NoHeaders, signal)

apiPut(body, signal) ==
  Config("apiPut", "POST", body, Header("X-HTTP-Method-Override", "PUT"), signal)

apiDelete(signal) == Config("apiDelete", "DELETE", FALSE, NoHeaders, signal)

\* a direct call of the exported makeApiRequest
CallerHeaders ==
  {NoHeaders, Header("Content-Type", "text/plain"), Header("Authorization", "caller")}

DirectConfigs ==
  {Config("makeApiRequest", m, b, h, s) :
     m \in {"GET", "POST", "PUT", "PATCH", "DELETE"}, b \in BOOLEAN,
     h \in CallerHeaders, s \in Signals}

Configs ==
  {apiGet(s) : s \in Signals} \cup {apiDelete(s) : s \in Signals}
    \cup {apiPost(b, s) : b \in BOOLEAN, s \in Signals}
    \cup {apiPut(b, s) : b \in BOOLEAN, s \in Signals}
    \cup DirectConfigs

\* an AuthResponse: headers, and one flag per optional hook
AuthHeaders ==
  {NoHeaders, Header("Authorization", "Bearer t"),
   Header("Content-Type", "application/xml")}

AuthResponses ==
  [headers : AuthHeaders, beforeRequest : BOOLEAN, afterRequest : BOOLEAN,
   shouldRefresh : BOOLEAN, refresh : BOOLEAN]

\* ------------------------------------------------------- makeApiRequest

Event(ev, status, name) == [ev |-> ev, status |-> status, name |-> name]

NoResponse == [status |-> 0, id |-> 0, nullBody |-> FALSE]

Pending ==
  [kind |-> "pending", name |-> "", message |-> "", status |-> 0, id |-> 0, via |-> ""]

\* mutant: a retry is sent without the cancellation signal
RequestInitUnsignalled(c, a) ==
  [method |-> c.method, url |-> c.url,
   signal |-> IF Len(sent) = 0 THEN c.signal ELSE NoSignal,
   body |-> c.body /\ c.method \in {"POST", "PUT", "PATCH"},
   headers |-> Spread(c.headers, a.headers)]

\* the url and the RequestInit handed to fetch (http.ts 114, 119-140)
RequestInit(c, a) ==
  LET merged == Spread(c.headers, a.headers)
      withBody == c.body /\ c.method \in {"POST", "PUT", "PATCH"}
  IN [method |-> c.method,
      url |-> c.url,
      signal |-> c.signal,
      body |-> withBody,
      headers |-> IF withBody /\ "Content-Type" \notin DOMAIN c.headers
                    THEN Spread(merged, Header("Content-Type", "application/json"))
                    ELSE merged]

\* WPApiError.fromResponse / handleApiError: the error raised for a
\* response; when the body is the JSON literal null, fromResponse itself
\* throws a TypeError (errors.ts 132) and that is what handleApiError raises
WPApiErrorOf(r) ==
  IF r.nullBody
    THEN [kind |-> "rejected", name |-> "TypeError", message |-> "", status |-> 0,
          id |-> r.id, via |-> ""]
    ELSE [kind |-> "rejected", name |-> "WPApiError", message |-> "",
          status |-> r.status, id |-> r.id, via |-> ""]

\* mutant: a rejection of fetch() is caught and wrapped into a WPApiError
FetchFailureWrapped(e) ==
  [kind |-> "rejected", name |-> "WPApiError", message |-> e.message, status |-> 0,
   id |-> 0, via |-> ""]

\* a rejection of fetch() is not caught: the call rejects with the same error
FetchFailure(e) ==
  [kind |-> "rejected", name |-> e.name, message |-> e.message, status |-> 0, id |-> 0,
   via |-> ""]

\* the value the call resolves with: the response itself, or what the
\* afterRequest hook made of it when the hook exists
Resolved(r, a) ==
  [kind |-> "resolved", name |-> "", message |-> "", status |-> r.status, id |-> r.id,
   via |-> IF a.afterRequest THEN "afterRequest" ELSE ""]

\* http.ts 114-117: build the URL, await beforeRequest if the hook exists
BeforeRequest ==
  /\ pc = "start"
  /\ log' = IF auth.beforeRequest THEN Append(log, Event("beforeRequest", 0, "")) ELSE log
  /\ pc' = "send"
  /\ UNCHANGED <<config, auth, response, sent, outcome>>

\* http.ts 119-140: build the RequestInit and call fetch
Send ==
  /\ pc = "send"
  /\ Len(sent) < MaxSends
  /\ sent' = Append(sent, RequestInit(config, auth))
  /\ log' = Append(log, Event("send", 0, ""))
  /\ pc' = "fetch"
  /\ UNCHANGED <<config, auth, response, outcome>>

\* the transport resolves the fetch with a response of some status; of a
\* response that is not OK the model also follows whether the body is the
\* JSON literal null (content-type application/json)
FetchResolve(status, nullBody) ==
  /\ pc = "fetch"
  /\ nullBody => ~Ok(status)
  /\ response' = [status |-> status, id |-> Len(sent), nullBody |-> nullBody]
  /\ log' = Append(log, Event("response", status, ""))
  /\ pc' = "response"
  /\ UNCHANGED <<config, auth, sent, outcome>>

\* http.ts 140: the transport rejects; nothing catches the rejection
FetchReject(e) ==
  /\ pc = "fetch"
  /\ e = AbortError => config.signal # NoSignal
  /\ log' = Append(log, Event("fetchRejected", 0, e.name))
  /\ outcome' = FetchFailure(e)
  /\ pc' = "done"
  /\ UNCHANGED <<config, auth, response, sent>>

\* mutant: the request is retried without calling the refresh hook
RetryWithoutRefresh ==
  /\ pc = "response"
  /\ ~Ok(response.status)
  /\ auth.shouldRefresh
  /\ log' = Append(log, Event("shouldRefresh", response.status, "true"))
  /\ pc' = "start"
  /\ UNCHANGED <<config, auth, response, sent, outcome>>

\* http.ts 143-148: not OK, shouldRefresh exists and answers true:
\* refresh (if the hook exists), then makeApiRequest(config) again
RefreshAndRetry ==
  /\ pc = "response"
  /\ ~Ok(response.status)
  /\ auth.shouldRefresh
  /\ log' = log \o <<Event("shouldRefresh", response.status, "true")>>
              \o (IF auth.refresh THEN <<Event("refresh", 0, "")>> ELSE <<>>)
  /\ pc' = "start"
  /\ UNCHANGED <<config, auth, response, sent, outcome>>

\* http.ts 143-149: not OK, no shouldRefresh hook or it answers false:
\* handleApiError throws the WPApiError of the response
RaiseApiError ==
  /\ pc = "response"
  /\ ~Ok(response.status)
  /\ log' = log \o (IF auth.shouldRefresh
                      THEN <<Event("shouldRefresh", response.status, "false")>>
                      ELSE <<>>)
              \o <<Event("handleApiError", response.status, "")>>
  /\ outcome' = WPApiErrorOf(response)
  /\ pc' = "done"
  /\ UNCHANGED <<config, auth, response, sent>>

\* mutant: the response is returned without passing through afterRequest
ReturnResponseUnhooked ==
  /\ pc = "response"
  /\ Ok(response.status)
  /\ outcome' = Resolved(response, auth)
  /\ pc' = "done"
  /\ UNCHANGED <<config, auth, response, sent, log>>

\* http.ts 152-157: OK: afterRequest if the hook exists, then return
ReturnResponse ==
  /\ pc = "response"
  /\ Ok(response.status)
  /\ log' = IF auth.afterRequest
              THEN Append(log, Event("afterRequest", response.status, ""))
              ELSE log
  /\ outcome' = Resolved(response, auth)
  /\ pc' = "done"
  /\ UNCHANGED <<config, auth, response, sent>>

InitRequest ==
  /\ config \in Configs
  /\ auth \in AuthResponses
  /\ pc = "start"
  /\ response = NoResponse
  /\ sent = <<>>
  /\ log = <<>>
  /\ outcome = Pending

\* ------------------------------------- createPaginationHelpers: listAll

\* a parameter the caller left out
Absent == 0

\* the items the source holds on page p: distinct on every page
PageItems(p) == <<10 * p + 1, 10 * p + 2>>

\* per_page forced by listAll (utils.ts 24, 34)
MaxPerPage == 100

\* list(params, options) of a resource factory: apiGetPaginated hands
\* options?.signal to makeApiRequest, which hands it to fetch
ListRequest(params, options) ==
  [page |-> params.page, per_page |-> params.per_page, search |-> params.search,
   signal |-> options.signal]

NoOptions == [signal |-> NoSignal]

\* mutant: the helper's listAll keeps the caller's per_page
ListAllFetchCallerPerPage(page) ==
  ListRequest([laParams EXCEPT !.page = page], NoOptions)

\* listFn({...params, page, per_page: 100}): the helper passes one argument,
\* so the list function sees no options
ListAllFetch(page) ==
  ListRequest([laParams EXCEPT !.page = page, !.per_page = MaxPerPage], NoOptions)

\* 1-based sequence <<f(a), ..., f(b)>> flattened
RECURSIVE Flat(_)
Flat(pages) == IF pages = <<>> THEN <<>> ELSE Head(pages) \o Flat(Tail(pages))

\* mutant: the results are collected in completion order
RemainingByCompletion(order) ==
  [i \in 1..Len(order) |-> PageItems(order[i])]

\* Promise.all: the i-th result belongs to the i-th promise, page i + 1 here
\* (Array.from index i - 1, page (i - 1) + 2), whatever the completion order
RemainingPages(order) ==
  [i \in 1..Len(order) |-> PageItems(i + 1)]

NoResult == [kind |-> "pending", items |-> <<>>, error |-> 0]

\* utils.ts 21-25: fetch page 1 at per_page 100
ListAllCall ==
  /\ laPc = "call"
  /\ laCalls' = <<ListAllFetch(1)>>
  /\ laFetch' = [laFetch EXCEPT ![1] = "pending"]
  /\ laPc' = "first"
  /\ UNCHANGED <<laParams, laOptions, laTotalPages, laOrder, laResult>>

\* utils.ts 21: the fetch of page 1 fails, the await throws
FirstPageFails ==
  /\ laPc = "first"
  /\ laFetch' = [laFetch EXCEPT ![1] = "failed"]
  /\ laOrder' = Append(laOrder, 1)
  /\ laResult' = [kind |-> "rejected", items |-> <<>>, error |-> 1]
  /\ laPc' = "done"
  /\ UNCHANGED <<laParams, laOptions, laTotalPages, laCalls>>

\* utils.ts 26-30: page 1 arrived and reports totalPages = 1
FirstPageOnly ==
  /\ laPc = "first"
  /\ laTotalPages = 1
  /\ laFetch' = [laFetch EXCEPT ![1] = "ok"]
  /\ laOrder' = Append(laOrder, 1)
  /\ laResult' = [kind |-> "resolved", items |-> PageItems(1), error |-> 0]
  /\ laPc' = "done"
  /\ UNCHANGED <<laParams, laOptions, laTotalPages, laCalls>>

\* utils.ts 26-38: page 1 arrived, totalPages # 1: every remaining page is
\* requested at once; with no remaining page Promise.all([]) resolves at once
FanOut ==
  /\ laPc = "first"
  /\ laTotalPages # 1
  /\ laOrder' = Append(laOrder, 1)
  /\ LET rest == IF laTotalPages >= 2 THEN 2..laTotalPages ELSE {}
     IN /\ laCalls' = laCalls \o [i \in 1..Cardinality(rest) |-> ListAllFetch(i + 1)]
        /\ laFetch' = [p \in DOMAIN laFetch |->
                         IF p = 1 THEN "ok" ELSE IF p \in rest THEN "pending" ELSE laFetch[p]]
        /\ IF rest = {}
             THEN /\ laResult' = [kind |-> "resolved", items |-> PageItems(1), error |-> 0]
                  /\ laPc' = "done"
             ELSE /\ laResult' = laResult
                  /\ laPc' = "rest"
  /\ UNCHANGED <<laParams, laOptions, laTotalPages>>

\* utils.ts 32-40: the fetch of page p >= 2 resolves; when it was the last
\* one pending and none failed, Promise.all resolves and listAll returns
PageResolves(p) ==
  /\ laPc \in {"rest", "done"}
  /\ laFetch[p] = "pending"
  /\ laFetch' = [laFetch EXCEPT ![p] = "ok"]
  /\ laOrder' = Append(laOrder, p)
  /\ IF laResult.kind = "pending" /\ \A q \in DOMAIN laFetch : q # p => laFetch[q] \in {"ok", "none"}
       THEN /\ laResult' = [kind |-> "resolved",
                            items |-> PageItems(1) \o Flat(RemainingPages(Tail(laOrder'))),
                            error |-> 0]
            /\ laPc' = "done"
       ELSE UNCHANGED <<laResult, laPc>>
  /\ UNCHANGED <<laParams, laOptions, laTotalPages, laCalls>>

\* mutant: a failed page is skipped, as with Promise.allSettled
PageFailsSkipped(p) ==
  /\ laPc \in {"rest", "done"}
  /\ laFetch[p] = "pending"
  /\ laFetch' = [laFetch EXCEPT ![p] = "failed"]
  /\ laOrder' = Append(laOrder, p)
  /\ IF laResult.kind = "pending" /\ \A q \in DOMAIN laFetch : q # p => laFetch[q] # "pending"
       THEN /\ laResult' = [kind |-> "resolved", items |-> PageItems(1), error |-> 0]
            /\ laPc' = "done"
       ELSE UNCHANGED <<laResult, laPc>>
  /\ UNCHANGED <<laParams, laOptions, laTotalPages, laCalls>>

\* utils.ts 32-38: the fetch of page p >= 2 fails; Promise.all rejects with
\* the first failure, the other fetches go on but their results are dropped
PageFails(p) ==
  /\ laPc \in {"rest", "done"}
  /\ laFetch[p] = "pending"
  /\ laFetch' = [laFetch EXCEPT ![p] = "failed"]
  /\ laOrder' = Append(laOrder, p)
  /\ IF laResult.kind = "pending"
       THEN /\ laResult' = [kind |-> "rejected", items |-> <<>>, error |-> p]
            /\ laPc' = "done"
       ELSE UNCHANGED <<laResult, laPc>>
  /\ UNCHANGED <<laParams, laOptions, laTotalPages, laCalls>>

ListParams ==
  [page : {Absent, 2}, per_page : {Absent, 10}, search : {"", "wp"}]

InitListAll ==
  /\ laParams \in ListParams
  /\ laOptions \in [signal : Signals]
  /\ laTotalPages \in 0..MaxPages
  /\ laPc = "call"
  /\ laCalls = <<>>
  /\ laFetch = [p \in 1..MaxPages |-> "none"]
  /\ laOrder = <<>>
  /\ laResult = NoResult

ParkListAll ==
  /\ laParams = [page |-> Absent, per_page |-> Absent, search |-> ""]
  /\ laOptions = NoOptions
  /\ laTotalPages = 0
  /\ laPc = "off"
  /\ laCalls = <<>>
  /\ laFetch = [p \in 1..MaxPages |-> "none"]
  /\ laOrder = <<>>
  /\ laResult = NoResult

ParkRequest ==
  /\ config = apiGet(NoSignal)
  /\ auth = [headers |-> NoHeaders, beforeRequest |-> FALSE, afterRequest |-> FALSE,
             shouldRefresh |-> FALSE, refresh |-> FALSE]
  /\ pc = "off"
  /\ response = NoResponse
  /\ sent = <<>>
  /\ log = <<>>
  /\ outcome = Pending

\* --------------------------------- the list operations and pages()

\* response.headers.get(...) of a header the response does not carry
NoHeader == -1

\* perPage reported when the caller gave no per_page (http.ts 289)
DefaultPerPage == 10

ResponseHeaders == [total : {NoHeader, 0, 25}, totalPages : {NoHeader} \cup 0..MaxPages]

\* extractPaginationInfo (http.ts 279-298), used by apiGetPaginated
extractPaginationInfo(headers, params) ==
  LET total == IF headers.total = NoHeader THEN 0 ELSE headers.total
      totalPages == IF headers.totalPages = NoHeader THEN 0 ELSE headers.totalPages
      currentPage == IF params.page = Absent THEN 1 ELSE params.page
      perPage == IF params.per_page = Absent THEN DefaultPerPage ELSE params.per_page
  IN [total |-> total, totalPages |-> totalPages, currentPage |-> currentPage,
      perPage |-> perPage, hasMore |-> currentPage < totalPages]

\* the pagination built by the list of taxonomies, post types and post
\* statuses out of a field-keyed mapping of nItems values
RecordPagination(headers, params, nItems) ==
  [total |-> IF headers.total = NoHeader THEN nItems ELSE headers.total,
   totalPages |-> IF headers.totalPages = NoHeader THEN 1 ELSE headers.totalPages,
   currentPage |-> IF params.page = Absent THEN 1 ELSE params.page,
   perPage |-> IF params.per_page = Absent THEN nItems ELSE params.per_page,
   hasMore |-> FALSE]

\* the number of values in the mapping a record list answers with
RecordItems == 2

\* the pagination of the Paginated Result of one list call
Pagination(list, headers, params) ==
  IF list = "generic"
    THEN extractPaginationInfo(headers, params)
    ELSE RecordPagination(headers, params, RecordItems)

\* hasMore after a yield: the shared helper compares its page counter with
\* totalPages (utils.ts 58-59), the factories' own iterators take
\* pagination.hasMore
NextHasMore(kind, page, pagination) ==
  IF kind = "helperPages" THEN page < pagination.totalPages ELSE pagination.hasMore

\* mutant: the iterators force per_page to 100 as listAll does
PageRequestForced(kind, params, page) ==
  [params EXCEPT !.page = page, !.per_page = MaxPerPage]

\* the params of the list request for a page: {...params, page} in the
\* iterators (utils.ts 55), {...params, page, per_page: 100} in the
\* sequential listAll of a factory
PageRequest(kind, params, page) ==
  IF kind = "factoryListAll"
    THEN [params EXCEPT !.page = page, !.per_page = MaxPerPage]
    ELSE [params EXCEPT !.page = page]

\* a direct call of list(params): one request with the caller's params
ListCall ==
  /\ pgPc = "start"
  /\ pgKind = "list"
  /\ pgRequested' = Append(pgRequested, pgParams.page)
  /\ pgCalls' = Append(pgCalls, pgParams)
  /\ pgInFlight' = pgInFlight + 1
  /\ pgPc' = "inflight"
  /\ UNCHANGED <<pgKind, pgList, pgParams, pgPage, pgYielded, pgHeaders, pgItems>>

\* the first next() of a pages() iterator: page = 1, hasMore = true, so
\* listFn({...params, page}) is called
PagesFirst ==
  /\ pgPc = "start"
  /\ pgKind \in {"helperPages", "factoryPages", "factoryListAll"}
  /\ pgRequested' = Append(pgRequested, pgPage)
  /\ pgCalls' = Append(pgCalls, PageRequest(pgKind, pgParams, pgPage))
  /\ pgInFlight' = pgInFlight + 1
  /\ pgPc' = "inflight"
  /\ UNCHANGED <<pgKind, pgList, pgParams, pgPage, pgYielded, pgHeaders, pgItems>>

\* the list request is answered: the Paginated Result is returned (list) or
\* yielded (pages)
PageArrives(headers) ==
  /\ pgPc = "inflight"
  /\ pgInFlight' = pgInFlight - 1
  /\ pgYielded' = Append(pgYielded, Pagination(pgList, headers, pgCalls[Len(pgCalls)]))
  /\ pgHeaders' = Append(pgHeaders, headers)
  /\ pgItems' = IF pgKind = "factoryListAll"
                  THEN pgItems \o PageItems(pgRequested[Len(pgRequested)])
                  ELSE pgItems
  /\ pgPc' = IF pgKind = "list" THEN "done" ELSE "yielded"
  /\ UNCHANGED <<pgKind, pgList, pgParams, pgPage, pgRequested, pgCalls>>

\* the list request fails: the rejection leaves the list call or the iterator
PageFetchFails ==
  /\ pgPc = "inflight"
  /\ pgInFlight' = pgInFlight - 1
  /\ pgPc' = "failed"
  /\ UNCHANGED <<pgKind, pgList, pgParams, pgPage, pgRequested, pgYielded, pgCalls,
                 pgHeaders, pgItems>>

\* next() after a yield, more pages expected: page++, the next list request
PagesNext ==
  /\ pgPc = "yielded"
  /\ NextHasMore(pgKind, pgPage, pgYielded[Len(pgYielded)])
  /\ Len(pgRequested) < MaxFetches
  /\ pgPage' = pgPage + 1
  /\ pgRequested' = Append(pgRequested, pgPage + 1)
  /\ pgCalls' = Append(pgCalls, PageRequest(pgKind, pgParams, pgPage + 1))
  /\ pgInFlight' = pgInFlight + 1
  /\ pgPc' = "inflight"
  /\ UNCHANGED <<pgKind, pgList, pgParams, pgYielded, pgHeaders, pgItems>>

\* next() after a yield, no more pages: the loop ends, the iterator is done
PagesReturn ==
  /\ pgPc = "yielded"
  /\ ~NextHasMore(pgKind, pgPage, pgYielded[Len(pgYielded)])
  /\ pgPage' = pgPage + 1
  /\ pgPc' = "done"
  /\ UNCHANGED <<pgKind, pgList, pgParams, pgInFlight, pgRequested, pgYielded, pgCalls,
                 pgHeaders, pgItems>>

\* the factories and what they are built of: the shared helper's pages()
\* over a generic list (tags, media, users, comments) or a record list
\* (taxonomies, post types, post statuses); their own pages() over a generic
\* list (posts, pages, categories, menus); the sequential listAll of the
\* latter
PagingCalls ==
  {<<"list", "generic">>, <<"list", "record">>, <<"helperPages", "generic">>,
   <<"helperPages", "record">>, <<"factoryPages", "generic">>,
   <<"factoryListAll", "generic">>}

PageParams ==
  [page : {Absent} \cup 1..MaxPages, per_page : {Absent, 10}, search : {"", "wp"}]

InitPaging ==
  /\ \E call \in PagingCalls : pgKind = call[1] /\ pgList = call[2]
  /\ pgParams \in PageParams
  /\ pgPage = 1
  /\ pgPc = "start"
  /\ pgInFlight = 0
  /\ pgRequested = <<>>
  /\ pgYielded = <<>>
  /\ pgCalls = <<>>
  /\ pgHeaders = <<>>
  /\ pgItems = <<>>

ParkPaging ==
  /\ pgKind = "list"
  /\ pgList = "generic"
  /\ pgParams = [page |-> Absent, per_page |-> Absent, search |-> ""]
  /\ pgPage = 1
  /\ pgPc = "off"
  /\ pgInFlight = 0
  /\ pgRequested = <<>>
  /\ pgYielded = <<>>
  /\ pgCalls = <<>>
  /\ pgHeaders = <<>>
  /\ pgItems = <<>>

\* ------------------------------------------------------------ createAuth

AuthMethods == {"none", "basic", "bearer", "apiKey", "hmac", "nonce", "oauth2"}

CredentialFields ==
  {"username", "password", "token", "refreshToken", "apiKey", "secret", "nonce",
   "clientId", "clientSecret", "accessToken"}

\* config.credentials: undefined, or an object with some keys
Credentials == [given : BOOLEAN, keys : SUBSET CredentialFields]

\* the keys createAuth looks for with `in` before it calls the provider
CheckedFields(method) ==
  CASE method = "basic" -> {"username"}
    [] method = "bearer" -> {"token"}
    [] method = "apiKey" -> {"apiKey"}
    [] method = "hmac" -> {"apiKey", "secret"}
    [] method = "nonce" -> {"nonce"}
    [] method = "oauth2" -> {"clientId", "clientSecret"}
    [] OTHER -> {}

\* the Error createAuth throws for the method
ErrorMessage(method) ==
  CASE method = "basic" -> "Basic auth requires username and password"
    [] method = "bearer" -> "Bearer auth requires a token"
    [] method = "apiKey" -> "API Key auth requires an apiKey"
    [] method = "hmac" -> "HMAC auth requires an apiKey and secret"
    [] method = "nonce" -> "Nonce auth requires a nonce"
    [] method = "oauth2" -> "OAuth2 requires clientId and clientSecret"
    [] OTHER -> "Unsupported auth method"

\* the guard of each case of the switch: !credentials || "k" in credentials === false
Rejects(method, credentials) ==
  \/ method \notin AuthMethods
  \/ /\ method # "none"
     /\ \/ ~credentials.given
        \/ \E k \in CheckedFields(method) : k \notin credentials.keys

NotCreated == [kind |-> "pending", text |-> ""]

\* createAuth throws
CreateAuthThrows ==
  /\ caResult = NotCreated
  /\ Rejects(caMethod, caCredentials)
  /\ caResult' = [kind |-> "threw", text |-> ErrorMessage(caMethod)]
  /\ UNCHANGED <<caMethod, caCredentials>>

\* createAuth returns the AuthResponse of the method's provider
CreateAuthReturns ==
  /\ caResult = NotCreated
  /\ ~Rejects(caMethod, caCredentials)
  /\ caResult' = [kind |-> "returned", text |-> caMethod]
  /\ UNCHANGED <<caMethod, caCredentials>>

InitCreateAuth ==
  /\ caMethod \in AuthMethods \cup {"digest"}
  /\ caCredentials \in {c \in Credentials : ~c.given => c.keys = {}}
  /\ caResult = NotCreated

ParkCreateAuth ==
  /\ caMethod = "none"
  /\ caCredentials = [given |-> FALSE, keys |-> {}]
  /\ caResult = [kind |-> "off", text |-> ""]

\* ------------------------------------------------------ the AuthProviders

\* the longest credential value, base address tail or path the model draws
MaxLen == 2

\* text is a sequence of character codes; the characters of the credential
\* values: ':' (58), 'a' (97), 'u' with diaeresis (252) and the euro sign
\* (8364), which lies outside Latin-1
CredentialChars == {58, 97, 252, 8364}

RECURSIVE TextsUpTo(_, _)
TextsUpTo(chars, n) ==
  IF n = 0 THEN {<<>>}
  ELSE LET shorter == TextsUpTo(chars, n - 1)
       IN shorter \cup {Append(t, c) : t \in shorter, c \in chars}

CredentialValues == TextsUpTo(CredentialChars, MaxLen)

\* `${value}` of a template literal: a missing field reads "undefined"
Template(credentials, field) ==
  IF field \in DOMAIN credentials
    THEN credentials[field]
    ELSE <<117, 110, 100, 101, 102, 105, 110, 101, 100>>

\* "Basic " and "Bearer "
BasicPrefix == <<66, 97, 115, 105, 99, 32>>
BearerPrefix == <<66, 101, 97, 114, 101, 114, 32>>

\* the character of a base64 digit 0..63; 64 stands for the padding '='
Base64Char(d) ==
  IF d < 26 THEN 65 + d
  ELSE IF d < 52 THEN 97 + (d - 26)
  ELSE IF d < 62 THEN 48 + (d - 52)
  ELSE IF d = 62 THEN 43
  ELSE IF d = 63 THEN 47
  ELSE 61

\* the base64 digits of a sequence of bytes, three bytes to four digits
RECURSIVE Base64Digits(_)
Base64Digits(bytes) ==
  IF bytes = <<>> THEN <<>>
  ELSE IF Len(bytes) = 1
    THEN <<bytes[1] \div 4, (bytes[1] % 4) * 16, 64, 64>>
  ELSE IF Len(bytes) = 2
    THEN <<bytes[1] \div 4, (bytes[1] % 4) * 16 + bytes[2] \div 16,
           (bytes[2] % 16) * 4, 64>>
  ELSE <<bytes[1] \div 4, (bytes[1] % 4) * 16 + bytes[2] \div 16,
         (bytes[2] % 16) * 4 + bytes[3] \div 64, bytes[3] % 64>>
         \o Base64Digits(SubSeq(bytes, 4, Len(bytes)))

\* btoa accepts Latin-1 text only; it throws InvalidCharacterError otherwise
Latin1(text) == \A i \in 1..Len(text) : text[i] <= 255

\* btoa(text) for Latin-1 text
btoa(text) == [i \in 1..Len(Base64Digits(text)) |-> Base64Char(Base64Digits(text)[i])]

\* mutant: oauth2 writes the Authorization header whatever accessToken is
ProviderHeadersUnchecked(method, credentials) ==
  CASE method = "basic" ->
         [Authorization |-> BasicPrefix
            \o btoa(Template(credentials, "username") \o <<58>>
                      \o Template(credentials, "password"))]
    [] method = "bearer" ->
         [Authorization |-> BearerPrefix \o Template(credentials, "token")]
    [] method = "apiKey" -> Header("X-API-Key", credentials.apiKey)
    [] method = "nonce" -> Header("X-WP-Nonce", credentials.nonce)
    [] method = "oauth2" ->
         [Authorization |-> BearerPrefix \o Template(credentials, "accessToken")]
    [] OTHER -> NoHeaders

\* the headers of the AuthResponse each provider returns
ProviderHeaders(method, credentials) ==
  CASE method = "basic" ->
         [Authorization |-> BasicPrefix
            \o btoa(Template(credentials, "username") \o <<58>>
                      \o Template(credentials, "password"))]
    [] method = "bearer" ->
         [Authorization |-> BearerPrefix \o Template(credentials, "token")]
    [] method = "apiKey" -> Header("X-API-Key", credentials.apiKey)
    [] method = "nonce" -> Header("X-WP-Nonce", credentials.nonce)
    [] method = "oauth2" ->
         IF "accessToken" \in DOMAIN credentials /\ credentials.accessToken # <<>>
           THEN [Authorization |-> BearerPrefix \o credentials.accessToken]
           ELSE NoHeaders
    [] OTHER -> NoHeaders

\* the hooks each provider defines
ProviderHooks(method) ==
  CASE method \in {"bearer", "oauth2"} -> {"refresh"}
    [] method = "hmac" -> {"beforeRequest"}
    [] OTHER -> {}

\* the credentials createAuth hands to the provider of the method: its
\* `in` checks have passed; other fields may be missing
ProviderCredentials(method) ==
  LET optional == CASE method = "basic" -> {"password"}
                    [] method = "oauth2" -> {"accessToken"}
                    [] OTHER -> {}
      fields == CheckedFields(method) \cup optional
  IN {c \in UNION {[ks -> CredentialValues] : ks \in SUBSET fields} :
        /\ CheckedFields(method) \subseteq DOMAIN c
        /\ \A k \in DOMAIN c \cap {"secret", "clientId", "clientSecret"} : c[k] = <<97>>}

ProviderCalls ==
  UNION {{[fn |-> "AuthProviders", method |-> m, credentials |-> c] :
            c \in ProviderCredentials(m)} : m \in AuthMethods}

\* basic: btoa throws on text outside Latin-1
ProviderThrows ==
  /\ fnPc = "call"
  /\ input.method = "basic"
  /\ ~Latin1(Template(input.credentials, "username")
               \o Template(input.credentials, "password"))
  /\ output' = [kind |-> "threw", name |-> "InvalidCharacterError",
                headers |-> NoHeaders, hooks |-> {}]
  /\ fnPc' = "done"
  /\ UNCHANGED input

\* the provider returns its AuthResponse
ProviderReturns ==
  /\ fnPc = "call"
  /\ input.method = "basic" =>
       Latin1(Template(input.credentials, "username")
                \o Template(input.credentials, "password"))
  /\ output' = [kind |-> "returned", name |-> "",
                headers |-> ProviderHeaders(input.method, input.credentials),
                hooks |-> ProviderHooks(input.method)]
  /\ fnPc' = "done"
  /\ UNCHANGED input

InitProviders ==
  /\ fnPc = "call"
  /\ input \in ProviderCalls
  /\ output = "none"

\* ------------------------------- normalizeUrl, buildSearchParams, buildUrl

\* the most entries of a parameter mapping the model draws
MaxParams == 2

\* A URL is a sequence of tokens; "/", ":", "?", "=", "&" and "," are
\* tokens of their own, every other token is text without those characters.
SiteBase == <<"https", ":", "/", "/", "site.com">>

\* base addresses: the site, then up to MaxLen of "/" and a directory name
BaseUrls == {SiteBase \o tail : tail \in TextsUpTo({"/", "wordpress"}, MaxLen)}

Paths == TextsUpTo({"/", "posts"}, MaxLen)

endsWith(text, token) == Len(text) > 0 /\ text[Len(text)] = token

startsWith(text, token) == Len(text) > 0 /\ text[1] = token

\* mutant: the trailing slash of the base is kept
normalizeUrlKeepBase(baseUrl, path) ==
  baseUrl \o (IF startsWith(path, "/") THEN path ELSE <<"/">> \o path)

\* http.ts 19-27
normalizeUrl(baseUrl, path) ==
  LET cleanBase == IF endsWith(baseUrl, "/")
                     THEN SubSeq(baseUrl, 1, Len(baseUrl) - 1)
                     ELSE baseUrl
      cleanPath == IF startsWith(path, "/") THEN path ELSE <<"/">> \o path
  IN cleanBase \o cleanPath

\* the values of a parameter mapping, tagged with their JavaScript type:
\* one field per type holds the value; a list holds numbers or strings
Value(t, b, n, s, ns, ss) ==
  [t |-> t, b |-> b, n |-> n, s |-> s, ns |-> ns, ss |-> ss]

Undefined == Value("undefined", FALSE, 0, "", <<>>, <<>>)
Null == Value("null", FALSE, 0, "", <<>>, <<>>)
Bool(b) == Value("bool", b, 0, "", <<>>, <<>>)
Num(n) == Value("num", FALSE, n, "", <<>>, <<>>)
Str(s) == Value("str", FALSE, 0, s, <<>>, <<>>)
Nums(l) == Value("nums", FALSE, 0, "", l, <<>>)
Strs(l) == Value("strs", FALSE, 0, "", <<>>, l)

\* Array.isArray(value)
IsList(value) == value.t \in {"nums", "strs"}

\* the elements of a list
Elements(value) ==
  IF value.t = "nums"
    THEN [i \in 1..Len(value.ns) |-> Num(value.ns[i])]
    ELSE [i \in 1..Len(value.ss) |-> Str(value.ss[i])]

ParamValues ==
  {Undefined, Null, Bool(TRUE), Bool(FALSE), Num(1), Str("id"),
   Nums(<<>>), Nums(<<1>>), Nums(<<2, 1>>), Strs(<<>>), Strs(<<"id">>),
   Strs(<<"title", "id">>)}

ParamKeys == {"_fields", "_embed", "page", "categories"}

\* a parameter mapping in insertion order: <<key, value>> pairs, keys distinct
RECURSIVE MappingsUpTo(_)
MappingsUpTo(n) ==
  IF n = 0 THEN {<<>>}
  ELSE LET shorter == MappingsUpTo(n - 1)
       IN shorter \cup
            {Append(m, <<k, v>>) :
               m \in {x \in shorter : Len(x) = n - 1},
               k \in ParamKeys, v \in ParamValues}

Distinct(m) == \A i, j \in 1..Len(m) : m[i][1] = m[j][1] => i = j

ParamMappings == {m \in MappingsUpTo(MaxParams) : Distinct(m)}

\* value.toString() of a number, boolean or string, as text
toString(value) ==
  CASE value.t = "num" -> <<ToString(value.n)>>
    [] value.t = "bool" -> <<IF value.b THEN "true" ELSE "false">>
    [] OTHER -> <<value.s>>

\* value.join(","): the elements as text, a "," between neighbours
RECURSIVE join(_)
join(elements) ==
  IF elements = <<>> THEN <<>>
  ELSE IF Len(elements) = 1 THEN toString(elements[1])
  ELSE toString(elements[1]) \o <<",">> \o join(Tail(elements))

Entry(key, value) == [key |-> key, value |-> value]

\* mutant: a list is appended as one comma-joined entry whatever its key
EntriesOfJoined(key, value) ==
  IF value.t \in {"undefined", "null"} THEN <<>>
  ELSE IF IsList(value)
    THEN IF Len(Elements(value)) > 0
           THEN <<Entry(key, join(Elements(value)))>>
           ELSE <<>>
  ELSE IF key = "_embed" /\ value = Bool(TRUE) THEN <<Entry("_embed", <<"true">>)>>
  ELSE <<Entry(key, toString(value))>>

\* http.ts 39-65: what one [key, value] of the mapping appends
EntriesOf(key, value) ==
  IF value.t \in {"undefined", "null"} THEN <<>>
  ELSE IF key = "_fields" /\ IsList(value)
    THEN IF Len(Elements(value)) > 0
           THEN <<Entry("_fields", join(Elements(value)))>>
           ELSE <<>>
  ELSE IF key = "_embed" /\ value = Bool(TRUE) THEN <<Entry("_embed", <<"true">>)>>
  ELSE IF IsList(value)
    THEN [i \in 1..Len(Elements(value)) |-> Entry(key, toString(Elements(value)[i]))]
  ELSE <<Entry(key, toString(value))>>

\* http.ts 33-68: the entries of the URLSearchParams, in order
RECURSIVE buildSearchParams(_)
buildSearchParams(params) ==
  IF params = <<>> THEN <<>>
  ELSE EntriesOf(params[1][1], params[1][2]) \o buildSearchParams(Tail(params))

\* the percent-encoding of URLSearchParams.toString(): of the tokens of the
\* model only "," is escaped
Encoded(text) == [i \in 1..Len(text) |-> IF text[i] = "," THEN "%2C" ELSE text[i]]

\* URLSearchParams.toString(): key=value joined by "&"
RECURSIVE QueryString(_)
QueryString(entries) ==
  IF entries = <<>> THEN <<>>
  ELSE <<entries[1].key, "=">> \o Encoded(entries[1].value)
         \o (IF Len(entries) > 1 THEN <<"&">> ELSE <<>>)
         \o QueryString(Tail(entries))

\* mutant: base and path are concatenated as they are
buildUrlRaw(baseUrl, path, params) ==
  LET queryString == QueryString(buildSearchParams(params))
  IN baseUrl \o path \o (IF queryString # <<>> THEN <<"?">> \o queryString ELSE <<>>)

\* http.ts 74-83
buildUrl(baseUrl, path, params) ==
  LET queryString == QueryString(buildSearchParams(params))
  IN normalizeUrl(baseUrl, path)
       \o (IF queryString # <<>> THEN <<"?">> \o queryString ELSE <<>>)

\* BASE_PATH of a resource factory
BASE_PATH(resource) == <<"/", "wp", "/", "v2", "/", resource>>

\* endpoint methods and how each builds the URL it hands to fetch: through
\* apiGetPaginated / makeApiRequest (buildUrl), or as `${baseUrl}${BASE_PATH}`
Endpoints ==
  {[name |-> "posts.list", resource |-> "posts", how |-> "buildUrl"],
   [name |-> "media.list", resource |-> "media", how |-> "buildUrl"],
   [name |-> "media.create", resource |-> "media", how |-> "concat"],
   [name |-> "taxonomies.list", resource |-> "taxonomies", how |-> "concat"],
   [name |-> "postTypes.list", resource |-> "types", how |-> "concat"],
   [name |-> "postStatuses.list", resource |-> "statuses", how |-> "concat"]}

\* the URL an endpoint method called without params sends to the transport
EndpointUrl(endpoint, baseUrl) ==
  IF endpoint.how = "concat"
    THEN baseUrl \o BASE_PATH(endpoint.resource)
    ELSE buildUrl(baseUrl, BASE_PATH(endpoint.resource), <<>>)

NoEndpoint == [name |-> "", resource |-> "", how |-> ""]

\* the applications the model draws: any base and path with at most one
\* parameter, and any parameter mapping on one base and path
UrlCalls ==
  {[fn |-> "buildUrl", endpoint |-> NoEndpoint, baseUrl |-> b, path |-> p, params |-> m] :
     b \in BaseUrls, p \in Paths, m \in {<<>>, <<<<"page", Num(1)>>>>}}
  \cup
  {[fn |-> "buildUrl", endpoint |-> NoEndpoint, baseUrl |-> SiteBase,
    path |-> BASE_PATH("posts"), params |-> m] : m \in ParamMappings}

EndpointCalls ==
  {[fn |-> "endpoint", endpoint |-> e, baseUrl |-> b,
    path |-> BASE_PATH(e.resource), params |-> <<>>] :
     e \in Endpoints, b \in BaseUrls}

\* normalizeUrl, buildSearchParams and buildUrl applied to the arguments
BuildUrl ==
  /\ fnPc = "call"
  /\ input.fn = "buildUrl"
  /\ output' = [normalized |-> normalizeUrl(input.baseUrl, input.path),
                entries |-> buildSearchParams(input.params),
                url |-> buildUrl(input.baseUrl, input.path, input.params)]
  /\ fnPc' = "done"
  /\ UNCHANGED input

\* an endpoint method builds its URL and calls fetch
EndpointRequest ==
  /\ fnPc = "call"
  /\ input.fn = "endpoint"
  /\ output' = [normalized |-> <<>>, entries |-> <<>>,
                url |-> EndpointUrl(input.endpoint, input.baseUrl)]
  /\ fnPc' = "done"
  /\ UNCHANGED input

InitBuildUrl ==
  /\ fnPc = "call"
  /\ input \in UrlCalls \cup EndpointCalls
  /\ output = "none"

\* --------------------------------------------------------------- WPApiError

\* the largest status a WPApiError is constructed with
MaxStatus == 600

\* errors.ts 54-84: the classification getters, as functions of this.status
\* mutant: 500 counts as a client error
isClientErrorInclusive(status) == status >= 400 /\ status <= 500

isClientError(status) == status >= 400 /\ status < 500

isServerError(status) == status >= 500 /\ status < 600

isAuthError(status) == status = 401 \/ status = 403

isNotFound(status) == status = 404

isRateLimitError(status) == status = 429

\* the getters that answer true on an error of the status
Classification(status) ==
  (IF isClientError(status) THEN {"isClientError"} ELSE {})
    \cup (IF isServerError(status) THEN {"isServerError"} ELSE {})
    \cup (IF isAuthError(status) THEN {"isAuthError"} ELSE {})
    \cup (IF isNotFound(status) THEN {"isNotFound"} ELSE {})
    \cup (IF isRateLimitError(status) THEN {"isRateLimitError"} ELSE {})

\* an optional field is a sequence: empty when the field is missing
Missing == <<>>
Given(v) == <<v>>

\* new WPApiError(message, status, {code, response, data})
WPApiErrorNew(message, status, code, data) ==
  [kind |-> "returned", name |-> "WPApiError", message |-> message, status |-> status,
   code |-> code, data |-> data, is |-> Classification(status)]

\* the responses handed to fromResponse: a non-OK status, a status text
\* that may be empty, a content-type (a sequence of tokens, empty when the
\* header is missing), and a body; a direct construction has no response,
\* its response field only carries the status
ErrorStatuses == {400, 401, 404, 429, 500}

ContentTypes ==
  {<<>>, <<"text/html">>, <<"application/json">>,
   <<"application/json", ";", "charset=utf-8">>}

\* what response.json() makes of the body: it rejects ("invalid"), or it
\* resolves with null, with an array, or with an object whose message,
\* code and data fields may be missing
EmptyPayload == [json |-> "object", message |-> Missing, code |-> Missing, data |-> Missing]

Bodies ==
  {[EmptyPayload EXCEPT !.json = j] : j \in {"invalid", "null", "array"}}
    \cup [json : {"object"},
          message : {Missing, Given(""), Given("Invalid parameter")},
          code : {Missing, Given("rest_invalid_param")},
          data : {Missing, Given("data")}]

Responses ==
  [status : ErrorStatuses, statusText : {"", "Bad Request"},
   contentType : ContentTypes, body : Bodies]

\* contentType?.includes("application/json")
IsJson(contentType) == \E i \in 1..Len(contentType) : contentType[i] = "application/json"

\* errors.ts 116-130: errorData after the try block; a rejection of
\* response.json() is caught and leaves the initial {}
ErrorData(r) ==
  IF IsJson(r.contentType) /\ r.body.json # "invalid" THEN r.body ELSE EmptyPayload

\* a || b || c on strings: the first that is neither missing nor empty
FirstTruthy(a, b, c) ==
  IF a # Missing /\ a # Given("") THEN a[1]
  ELSE IF b # "" THEN b
  ELSE c

ErrorCalls ==
  {[fn |-> "new", status |-> s,
    response |-> [status |-> s, statusText |-> "", contentType |-> <<>>,
                  body |-> EmptyPayload]] : s \in 0..MaxStatus}
    \cup {[fn |-> "fromResponse", status |-> r.status, response |-> r] : r \in Responses}

\* new WPApiError(message, status)
Construct ==
  /\ fnPc = "call"
  /\ input.fn = "new"
  /\ output' = WPApiErrorNew("message", input.status, Missing, Missing)
  /\ fnPc' = "done"
  /\ UNCHANGED input

\* errors.ts 132: errorData is null, reading errorData.message throws
FromResponseThrows ==
  /\ fnPc = "call"
  /\ input.fn = "fromResponse"
  /\ ErrorData(input.response).json = "null"
  /\ output' = [kind |-> "threw", name |-> "TypeError", message |-> "", status |-> 0,
                code |-> Missing, data |-> Missing, is |-> {}]
  /\ fnPc' = "done"
  /\ UNCHANGED input

\* errors.ts 132-138
FromResponseReturns ==
  /\ fnPc = "call"
  /\ input.fn = "fromResponse"
  /\ ErrorData(input.response).json # "null"
  /\ LET errorData == ErrorData(input.response)
     IN output' = WPApiErrorNew(
                    FirstTruthy(errorData.message, input.response.statusText, "Unknown error"),
                    input.response.status, errorData.code, errorData.data)
  /\ fnPc' = "done"
  /\ UNCHANGED input

InitErrors ==
  /\ fnPc = "call"
  /\ input \in ErrorCalls
  /\ output = "none"

\* ---------------------- createYoastEndpoints: sitemapIndex and sitemap

\* the REST bases the endpoints are built with; the last one is no URL
RestBases ==
  {SiteBase,
   SiteBase \o <<"/">>,
   SiteBase \o <<"/", "wp-json">>,
   SiteBase \o <<"/", "wp-json", "/">>,
   SiteBase \o <<"/", "blog", "/", "wp-json">>,
   SiteBase \o <<"/", "blog", "/">>,
   <<"site.com", "/", "wp-json">>}

\* siteBaseUrl of the config: left out, or another site
NoSiteBase == <<>>
SiteBaseUrls == {NoSiteBase, <<"https", ":", "/", "/", "cdn.site.com">>}

\* the paths handed to sitemap(): relative, rooted, absolute, and a file
\* whose name begins with "http"
SitemapPaths ==
  {<<"post-sitemap.xml">>,
   <<"/", "post-sitemap.xml">>,
   <<"https", ":", "/", "/", "other.com", "/", "sitemap.xml">>,
   <<"http-sitemap.xml">>}

\* tokens that begin with the characters "http"
HttpTokens == {"http", "https", "http-sitemap.xml"}

\* text.startsWith("http")
startsWithHttp(text) == Len(text) > 0 /\ text[1] \in HttpTokens

\* text without its last token
DropLast(text) == SubSeq(text, 1, Len(text) - 1)

\* new URL(restBase) succeeds: scheme, "://" and a host
IsUrl(text) == Len(text) >= 5 /\ SubSeq(text, 1, 4) = <<"https", ":", "/", "/">>

\* text.replace(/\/?wp-json\/?$/, "") (endpoints.ts 35, 41)
WithoutWpJson(text) ==
  LET body == IF endsWith(text, "/") THEN DropLast(text) ELSE text
  IN IF endsWith(body, "wp-json")
       THEN IF endsWith(DropLast(body), "/")
              THEN DropLast(DropLast(body))
              ELSE DropLast(body)
       ELSE text

\* endpoints.ts 32-43
stripWpJson(restBase) ==
  IF IsUrl(restBase)
    THEN LET origin == SubSeq(restBase, 1, 5)
             pathname == IF Len(restBase) = 5
                           THEN <<"/">>
                           ELSE SubSeq(restBase, 6, Len(restBase))
             stripped == WithoutWpJson(pathname)
             strippedPath == IF stripped = <<>> THEN <<"/">> ELSE stripped
             normalizedPath ==
               IF endsWith(strippedPath, "/")
                 THEN IF DropLast(strippedPath) = <<>>
                        THEN <<"/">>
                        ELSE DropLast(strippedPath)
                 ELSE strippedPath
         IN origin \o (IF normalizedPath = <<"/">> THEN <<>> ELSE normalizedPath)
    ELSE WithoutWpJson(restBase)

\* endpoints.ts 50: siteBaseUrl || stripWpJson(baseUrl)
resolvedSiteBase(c) ==
  IF c.siteBaseUrl # NoSiteBase THEN c.siteBaseUrl ELSE stripWpJson(c.baseUrl)

\* endpoints.ts 73 (sitemapIndex), 81-87 (sitemap)
SitemapUrl(c) ==
  IF c.op = "sitemapIndex"
    THEN resolvedSiteBase(c) \o <<"/", "sitemap_index.xml">>
    ELSE LET normalized == IF startsWith(c.path, "/") \/ startsWithHttp(c.path)
                             THEN c.path
                             ELSE <<"/">> \o c.path
         IN IF startsWithHttp(normalized)
              THEN normalized
              ELSE resolvedSiteBase(c) \o normalized

\* the init handed to fetch: { signal: options?.signal } and nothing else
SitemapInit(c) ==
  [method |-> "GET", url |-> SitemapUrl(c), signal |-> c.signal, headers |-> NoHeaders]

\* response.text(): the body of the response, whatever its status
ResponseText(status) ==
  [kind |-> "resolved", name |-> "", message |-> "", status |-> status, id |-> 0,
   via |-> "text"]

\* endpoints.ts 74, 88: the one fetch of the call
SitemapFetch ==
  /\ fnPc = "call"
  /\ output' = [sent |-> <<SitemapInit(input)>>, answered |-> 0, outcome |-> Pending]
  /\ fnPc' = "fetch"
  /\ UNCHANGED input

\* endpoints.ts 74-75, 88-89: the response arrives and its text is returned;
\* response.ok is not looked at
SitemapAnswered(status) ==
  /\ fnPc = "fetch"
  /\ output' = [output EXCEPT !.answered = status, !.outcome = ResponseText(status)]
  /\ fnPc' = "done"
  /\ UNCHANGED input

\* endpoints.ts 74, 88: fetch rejects and nothing catches the rejection
SitemapFetchRejects(e) ==
  /\ fnPc = "fetch"
  /\ e = AbortError => input.signal # NoSignal
  /\ output' = [output EXCEPT !.outcome = FetchFailure(e)]
  /\ fnPc' = "done"
  /\ UNCHANGED input

\* the calls: the endpoints are built with or without auth and siteBaseUrl
SitemapCalls ==
  [op : {"sitemapIndex"}, baseUrl : RestBases, siteBaseUrl : SiteBaseUrls,
   auth : BOOLEAN, path : {<<>>}, signal : Signals]
  \cup
  [op : {"sitemap"}, baseUrl : RestBases, siteBaseUrl : SiteBaseUrls,
   auth : BOOLEAN, path : SitemapPaths, signal : Signals]

InitSitemap ==
  /\ fnPc = "call"
  /\ input \in SitemapCalls
  /\ output = "none"

\* ------------------- concurrent makeApiRequest calls, one AuthResponse

\* the calls: each is one makeApiRequest with the same auth object, whose
\* shouldRefresh and refresh hooks exist
Requests == 1..NumRequests

\* what the shouldRefresh hook of the shared auth answers (http.ts 144)
ShouldRefresh(status) == status = 401

\* the credential auth.headers holds before any refresh
FirstToken == 0

Last(seq) == seq[Len(seq)]

\* http.ts 119-140: the RequestInit is built from the headers auth holds at
\* this moment, and fetch is called
ConcurrentSend(r) ==
  /\ ccPc[r] = "start"
  /\ ccSent' = [ccSent EXCEPT ![r] = Append(@, ccAuth)]
  /\ ccPc' = [ccPc EXCEPT ![r] = "fetch"]
  /\ UNCHANGED <<ccAuth, ccAnswers, ccRefreshes>>

\* the responses so far that called for a refresh
Refusals(r) ==
  Cardinality({i \in 1..Len(ccAnswers[r]) :
                 ~Ok(ccAnswers[r][i]) /\ ShouldRefresh(ccAnswers[r][i])})

RECURSIVE Total(_, _)
Total(f, S) ==
  IF S = {} THEN 0 ELSE LET r == CHOOSE r \in S : TRUE IN f[r] + Total(f, S \ {r})

\* http.ts 140: the transport answers the request
ConcurrentAnswer(r, status) ==
  /\ ccPc[r] = "fetch"
  /\ (~Ok(status) /\ ShouldRefresh(status)) =>
       Total([q \in Requests |-> Refusals(q)], Requests) < MaxRefusals
  /\ ccAnswers' = [ccAnswers EXCEPT ![r] = Append(@, status)]
  /\ ccPc' = [ccPc EXCEPT ![r] = "response"]
  /\ UNCHANGED <<ccAuth, ccSent, ccRefreshes>>

\* mutant: a request joins a refresh that is already in flight
RefreshBeginsSingleFlight(r) ==
  /\ ccPc[r] = "response"
  /\ ~Ok(Last(ccAnswers[r]))
  /\ ShouldRefresh(Last(ccAnswers[r]))
  /\ ccRefreshes' = IF \E q \in Requests : ccPc[q] = "refresh"
                      THEN ccRefreshes
                      ELSE [ccRefreshes EXCEPT ![r] = @ + 1]
  /\ ccPc' = [ccPc EXCEPT ![r] = "refresh"]
  /\ UNCHANGED <<ccAuth, ccSent, ccAnswers>>

\* http.ts 143-145: not OK and shouldRefresh answers true: this request
\* invokes auth.refresh, whatever the other requests are doing
RefreshBegins(r) ==
  /\ ccPc[r] = "response"
  /\ ~Ok(Last(ccAnswers[r]))
  /\ ShouldRefresh(Last(ccAnswers[r]))
  /\ ccRefreshes' = [ccRefreshes EXCEPT ![r] = @ + 1]
  /\ ccPc' = [ccPc EXCEPT ![r] = "refresh"]
  /\ UNCHANGED <<ccAuth, ccSent, ccAnswers>>

\* http.ts 145-147: the refresh completes: it put a new credential into the
\* shared auth, and the request re-enters makeApiRequest
RefreshEnds(r) ==
  /\ ccPc[r] = "refresh"
  /\ ccAuth' = ccAuth + 1
  /\ ccPc' = [ccPc EXCEPT ![r] = "start"]
  /\ UNCHANGED <<ccSent, ccAnswers, ccRefreshes>>

\* http.ts 143-149: not OK and shouldRefresh answers false: handleApiError
ConcurrentRaise(r) ==
  /\ ccPc[r] = "response"
  /\ ~Ok(Last(ccAnswers[r]))
  /\ ~ShouldRefresh(Last(ccAnswers[r]))
  /\ ccPc' = [ccPc EXCEPT ![r] = "rejected"]
  /\ UNCHANGED <<ccAuth, ccSent, ccAnswers, ccRefreshes>>

\* http.ts 152-157: OK: the response is returned
ConcurrentReturn(r) ==
  /\ ccPc[r] = "response"
  /\ Ok(Last(ccAnswers[r]))
  /\ ccPc' = [ccPc EXCEPT ![r] = "resolved"]
  /\ UNCHANGED <<ccAuth, ccSent, ccAnswers, ccRefreshes>>

\* every call has been started and none has sent yet
InitConcurrent ==
  /\ ccAuth = FirstToken
  /\ ccPc = [r \in Requests |-> "start"]
  /\ ccSent = [r \in Requests |-> <<>>]
  /\ ccAnswers = [r \in Requests |-> <<>>]
  /\ ccRefreshes = [r \in Requests |-> 0]

ParkConcurrent ==
  /\ ccAuth = FirstToken
  /\ ccPc = [r \in Requests |-> "off"]
  /\ ccSent = [r \in Requests |-> <<>>]
  /\ ccAnswers = [r \in Requests |-> <<>>]
  /\ ccRefreshes = [r \in Requests |-> 0]

\* ------------------------------------------- claims about makeApiRequest

Count(ev) == Cardinality({i \in 1..Len(log) : log[i].ev = ev})

\* the position in log of the n-th event named ev
Nth(ev, n) ==
  CHOOSE i \in 1..Len(log) :
    /\ log[i].ev = ev
    /\ Cardinality({j \in 1..i : log[j].ev = ev}) = n

\* C1: within one makeApiRequest call the transport is invoked at most twice
\* and refresh at most once, whatever the responses and whatever
\* shouldRefresh answers.
C1_AtMostOneRetry == Len(sent) <= 2 /\ Count("refresh") <= 1

\* the case of C2: a first response that is not OK, for which shouldRefresh
\* answered true, and a second response that is OK
C2_Case ==
  /\ Count("response") >= 2
  /\ ~Ok(log[Nth("response", 1)].status)
  /\ log[Nth("response", 1) + 1] = Event("shouldRefresh", log[Nth("response", 1)].status, "true")
  /\ Ok(log[Nth("response", 2)].status)

C2_TwoSendsResolved ==
  /\ Len(sent) = 2
  /\ Count("response") = 2
  /\ pc \in {"response", "done"}
  /\ pc = "done" =>
       /\ outcome.kind = "resolved"
       /\ outcome.id = 2
       /\ outcome.status = log[Nth("response", 2)].status

\* C2 as stated: in the case of C2 the call resolves with the second response,
\* the transport was invoked exactly twice and refresh exactly once.
C2_Original == C2_Case => C2_TwoSendsResolved /\ Count("refresh") = 1

\* C2, amended: in the case of C2 the call resolves with the second response
\* (through afterRequest when that hook exists) and the transport was invoked
\* exactly twice; when the AuthResponse has a refresh hook, refresh was
\* invoked exactly once, after the first response and before the second
\* send; when it has none, no refresh is invoked.
C2_RetryOnceAfterRefresh ==
  C2_Case =>
    /\ C2_TwoSendsResolved
    /\ auth.refresh =>
         /\ Count("refresh") = 1
         /\ Nth("response", 1) < Nth("refresh", 1)
         /\ Nth("refresh", 1) < Nth("send", 2)
    /\ ~auth.refresh => Count("refresh") = 0
    /\ pc = "done" => (outcome.via = "afterRequest" <=> auth.afterRequest)

C2_Witness ==
  /\ C2_Case
  /\ pc = "done"
  /\ outcome.kind = "resolved"
  /\ auth.refresh
  /\ response.status = 200

\* a response that is not OK and is not to be refreshed: no shouldRefresh
\* hook, or the hook answered false for it
NotRefreshed(i) ==
  /\ log[i].ev = "response"
  /\ ~Ok(log[i].status)
  /\ \/ ~auth.shouldRefresh
     \/ i < Len(log) /\ log[i + 1] = Event("shouldRefresh", log[i].status, "false")

\* C3: a response that is not OK, with no shouldRefresh hook or with
\* shouldRefresh answering false, makes the call reject with a WPApiError of
\* that response's status; no send, refresh or afterRequest follows it.
C3_NonOkRaisesApiError ==
  \A i \in 1..Len(log) :
    NotRefreshed(i) =>
      /\ \A j \in (i + 1)..Len(log) :
           log[j].ev \notin {"beforeRequest", "send", "refresh", "afterRequest", "response"}
      /\ pc \in {"response", "done"}
      /\ pc = "done" =>
           /\ outcome.kind = "rejected"
           /\ outcome.name = "WPApiError"
           /\ outcome.status = log[i].status

\* C3 holds of every response whose body is not the JSON literal null
C3_ExceptNullBody ==
  \A i \in 1..Len(log) :
    (NotRefreshed(i) /\ ~response.nullBody) =>
      /\ \A j \in (i + 1)..Len(log) :
           log[j].ev \notin {"beforeRequest", "send", "refresh", "afterRequest", "response"}
      /\ pc \in {"response", "done"}
      /\ pc = "done" =>
           /\ outcome.kind = "rejected"
           /\ outcome.name = "WPApiError"
           /\ outcome.status = log[i].status

C3_Witness ==
  /\ pc = "done"
  /\ outcome.name = "WPApiError"
  /\ outcome.status = 404
  /\ auth.shouldRefresh /\ auth.refresh /\ auth.afterRequest
  /\ NotRefreshed(Nth("response", 1))

\* C4: when the transport rejects (AbortError or network error) the call
\* rejects with that same error, name and message unchanged, never with a
\* WPApiError; nothing follows the rejection: no retry, no shouldRefresh, no
\* refresh, no afterRequest.
C4_TransportErrorUnchanged ==
  \A i \in 1..Len(log) :
    log[i].ev = "fetchRejected" =>
      /\ i = Len(log)
      /\ pc = "done"
      /\ outcome.kind = "rejected"
      /\ outcome.name # "WPApiError"
      /\ \E e \in {AbortError, NetworkError} :
           /\ e.name = log[i].name
           /\ outcome.name = e.name
           /\ outcome.message = e.message

C4_Witness ==
  /\ pc = "done"
  /\ outcome.name = "AbortError"
  /\ config.api = "apiPut"
  /\ Len(sent) = 2
  /\ auth.shouldRefresh /\ auth.refresh /\ auth.afterRequest

\* --------------------------------------------------- claims about listAll

\* C5: every transport send made on behalf of a public endpoint method
\* carries the cancellation signal the caller supplied to that method, the
\* page fetches issued by listAll included.
C5_SignalOnEverySend ==
  \A i \in 1..Len(laCalls) : laCalls[i].signal = laOptions.signal

\* the items of pages 1..n in page order
RECURSIVE ItemsUpTo(_)
ItemsUpTo(n) == IF n = 0 THEN <<>> ELSE ItemsUpTo(n - 1) \o PageItems(n)

\* C6: when page 1 reports totalPages = N >= 1 and listAll resolves, it
\* resolves with the items of pages 1..N in ascending page order, whatever
\* the completion order of the fetches, and the list function was invoked
\* exactly N times, once for each page 1..N.
C6_ListAllInPageOrder ==
  (laResult.kind = "resolved" /\ laTotalPages >= 1) =>
    /\ laResult.items = ItemsUpTo(laTotalPages)
    /\ Len(laCalls) = laTotalPages
    /\ \A p \in 1..laTotalPages :
         Cardinality({i \in 1..Len(laCalls) : laCalls[i].page = p}) = 1

C6_Witness ==
  /\ laResult.kind = "resolved"
  /\ laTotalPages = 3
  /\ laOrder = <<1, 3, 2>>

\* the pages whose fetch failed, in the order the failures were detected
FailedInOrder == SelectSeq(laOrder, LAMBDA p : laFetch[p] = "failed")

\* C7: as soon as the fetch of any page fails, listAll is rejected, with the
\* first failure detected (the failure of the page, when one page fails);
\* it never resolves with a partial item sequence, whatever the completion
\* order of the other fetches.
C7_FailureRejectsListAll ==
  /\ FailedInOrder # <<>> =>
       /\ laResult.kind = "rejected"
       /\ laResult.error = Head(FailedInOrder)
       /\ laResult.items = <<>>
  /\ laResult.kind = "resolved" => \A p \in DOMAIN laFetch : laFetch[p] \in {"ok", "none"}

C7_Witness ==
  /\ laTotalPages = 3
  /\ laOrder = <<1, 3, 2>>
  /\ laFetch[3] = "ok"
  /\ laFetch[2] = "failed"
  /\ laResult.kind = "rejected"
  /\ laResult.error = 2

\* ------------------------------------- claims about list and pages()

\* what C8 asks of an iteration of pages()
OnePageAtATime ==
  /\ pgInFlight <= 1
  /\ \A i \in 1..Len(pgRequested) : pgRequested[i] = i
  /\ Len(pgRequested) <= Len(pgYielded) + 1
  /\ \A i \in 1..Len(pgYielded) : ~pgYielded[i].hasMore => Len(pgRequested) <= i

\* C8: pages() never has more than one page fetch in flight, requests the
\* pages 1, 2, 3, ... in ascending order, yields each page before it requests
\* the next, and requests no page after it yielded one whose hasMore is false.
C8_PagesOneAtATime ==
  pgKind \in {"helperPages", "factoryPages"} => OnePageAtATime

\* C8 holds of every iterator over a generic (header-based) list
C8_OverGenericList ==
  (pgKind \in {"helperPages", "factoryPages"} /\ pgList = "generic") => OnePageAtATime

\* what C9 asks of the i-th Paginated Result handed to the caller
PaginationConsistent(i) ==
  /\ pgYielded[i].currentPage = (IF pgRequested[i] = Absent THEN 1 ELSE pgRequested[i])
  /\ pgYielded[i].hasMore <=> pgYielded[i].currentPage < pgYielded[i].totalPages

\* C9: every Paginated Result of every list operation has currentPage equal
\* to the page parameter of the request (1 when omitted) and hasMore true
\* exactly when currentPage < totalPages.
C9_PaginationInvariant ==
  \A i \in 1..Len(pgYielded) : PaginationConsistent(i)

\* C9 holds of the generic (header-based) lists
C9_OfGenericList ==
  pgList = "generic" => \A i \in 1..Len(pgYielded) : PaginationConsistent(i)

\* ------------------------------------------------ claims about createAuth

\* the credential fields each method requires
RequiredFields(method) ==
  CASE method = "basic" -> {"username", "password"}
    [] method = "bearer" -> {"token"}
    [] method = "apiKey" -> {"apiKey"}
    [] method = "hmac" -> {"apiKey", "secret"}
    [] method = "nonce" -> {"nonce"}
    [] method = "oauth2" -> {"clientId", "clientSecret"}
    [] OTHER -> {}

\* C10: createAuth throws whenever a required credential field of the
\* method is missing; whenever it returns an AuthResponse, every required
\* field of the method was present.
C10_RequiredFieldsChecked ==
  caResult.kind = "returned" => RequiredFields(caMethod) \subseteq caCredentials.keys

\* C10 holds of every method but basic
C10_ExceptBasic ==
  (caResult.kind = "returned" /\ caMethod # "basic") =>
    RequiredFields(caMethod) \subseteq caCredentials.keys

\* ------------------------------------- claims about the request headers

\* the headers the caller and the AuthResponse both supply
InBoth == DOMAIN config.headers \cap DOMAIN auth.headers

\* C12: the headers sent follow default < caller < auth: for a key in both
\* the caller's headers and auth.headers the auth value is sent, and the
\* default Content-Type never replaces an auth header; the exception is
\* Content-Type, where a caller-supplied value is the value sent even when
\* auth.headers also has a Content-Type.
C12_HeaderPrecedence ==
  \A i \in 1..Len(sent) :
    /\ \A k \in InBoth \ {"Content-Type"} : sent[i].headers[k] = auth.headers[k]
    /\ \A k \in DOMAIN auth.headers \ DOMAIN config.headers :
         sent[i].headers[k] = auth.headers[k]
    /\ "Content-Type" \in DOMAIN config.headers =>
         sent[i].headers["Content-Type"] = config.headers["Content-Type"]

\* what the code does instead: auth beats the caller on every key, and the
\* default Content-Type is written last whenever a body is sent and the
\* caller supplied no Content-Type
C12_AsCoded ==
  \A i \in 1..Len(sent) :
    \A k \in DOMAIN sent[i].headers :
      sent[i].headers[k] =
        IF k = "Content-Type" /\ sent[i].body /\ k \notin DOMAIN config.headers
          THEN "application/json"
          ELSE IF k \in DOMAIN auth.headers THEN auth.headers[k]
          ELSE config.headers[k]

\* C13: every send of an apiPut call has method POST and the header
\* X-HTTP-Method-Override: PUT, and a supplied body is sent serialized with
\* Content-Type application/json.
C13_PutAsPostOverride ==
  config.api = "apiPut" =>
    \A i \in 1..Len(sent) :
      /\ sent[i].method = "POST"
      /\ "X-HTTP-Method-Override" \in DOMAIN sent[i].headers
      /\ sent[i].headers["X-HTTP-Method-Override"] = "PUT"
      /\ config.body =>
           /\ sent[i].body
           /\ "Content-Type" \in DOMAIN sent[i].headers
           /\ sent[i].headers["Content-Type"] = "application/json"

\* an apiPut call with a body, sent twice, under an AuthResponse that has
\* a Content-Type of its own
C13_Witness ==
  /\ config.api = "apiPut"
  /\ config.body
  /\ "Content-Type" \in DOMAIN auth.headers
  /\ Len(sent) = 2

\* ----------------------------------------- claims about the AuthProviders

\* the digit of a base64 character
Base64DigitOf(c) ==
  CHOOSE d \in 0..64 : Base64Char(d) = c

\* atob: the bytes a base64 text stands for, four characters to three bytes
RECURSIVE atob(_)
atob(text) ==
  IF Len(text) < 4 THEN <<>>
  ELSE LET a == Base64DigitOf(text[1])
           b == Base64DigitOf(text[2])
           c == Base64DigitOf(text[3])
           d == Base64DigitOf(text[4])
           first == <<a * 4 + b \div 16>>
           second == IF c = 64 THEN <<>> ELSE <<(b % 16) * 16 + c \div 4>>
           third == IF d = 64 THEN <<>> ELSE <<(c % 4) * 64 + d>>
       IN first \o second \o third \o atob(SubSeq(text, 5, Len(text)))

\* text starts with prefix
HasPrefix(text, prefix) ==
  Len(text) >= Len(prefix) /\ SubSeq(text, 1, Len(prefix)) = prefix

\* text without its first n characters
Drop(text, n) == SubSeq(text, n + 1, Len(text))

\* the header set is exactly the one header k with value v
Only(headers, k, v) == DOMAIN headers = {k} /\ headers[k] = v

\* C11: the header set each provider produces is exactly: none -> empty;
\* basic -> only Authorization = 'Basic ' + base64(username ':' password);
\* bearer -> only Authorization = 'Bearer ' + token; apiKey -> only
\* X-API-Key = apiKey; hmac -> empty; nonce -> only X-WP-Nonce = nonce;
\* oauth2 -> only Authorization = 'Bearer ' + accessToken when accessToken
\* is present and non-empty, otherwise empty.
C11_ProviderHeaders ==
  (/\ fnPc = "done"
   /\ output.kind = "returned"
   /\ RequiredFields(input.method) \subseteq DOMAIN input.credentials) =>
    LET c == input.credentials
        h == output.headers
        m == input.method
    IN /\ m \in {"none", "hmac"} => DOMAIN h = {}
       /\ m = "basic" =>
            /\ DOMAIN h = {"Authorization"}
            /\ HasPrefix(h["Authorization"], BasicPrefix)
            /\ atob(Drop(h["Authorization"], Len(BasicPrefix)))
                 = c["username"] \o <<58>> \o c["password"]
       /\ m = "bearer" => Only(h, "Authorization", BearerPrefix \o c["token"])
       /\ m = "apiKey" => Only(h, "X-API-Key", c["apiKey"])
       /\ m = "nonce" => Only(h, "X-WP-Nonce", c["nonce"])
       /\ m = "oauth2" =>
            IF "accessToken" \in DOMAIN c /\ Len(c["accessToken"]) > 0
              THEN Only(h, "Authorization", BearerPrefix \o c["accessToken"])
              ELSE DOMAIN h = {}

\* basic credentials whose text needs base64 padding and has a byte above
\* 127 were encoded, and an oauth2 provider was handed an empty accessToken
C11_Witness ==
  /\ fnPc = "done"
  /\ output.kind = "returned"
  /\ \/ /\ input.method = "basic"
        /\ "password" \in DOMAIN input.credentials
        /\ input.credentials["username"] = <<97, 252>>
        /\ input.credentials["password"] = <<58>>
     \/ /\ input.method = "oauth2"
        /\ "accessToken" \in DOMAIN input.credentials
        /\ input.credentials["accessToken"] = <<>>

\* ----------------------------------------- claims about the URL builder

\* text without one trailing "/", without one leading "/"
WithoutTrailing(text) ==
  IF endsWith(text, "/") THEN SubSeq(text, 1, Len(text) - 1) ELSE text

WithoutLeading(text) == IF startsWith(text, "/") THEN Tail(text) ELSE text

\* text without any of its trailing "/", without any of its leading "/"
RECURSIVE StripTrailing(_)
StripTrailing(text) ==
  IF endsWith(text, "/") THEN StripTrailing(SubSeq(text, 1, Len(text) - 1)) ELSE text

RECURSIVE StripLeading(_)
StripLeading(text) == IF startsWith(text, "/") THEN StripLeading(Tail(text)) ELSE text

\* the positions of text where a scheme separator "://" starts
SchemeAt(text) ==
  {i \in 1..(Len(text) - 2) : text[i] = ":" /\ text[i + 1] = "/" /\ text[i + 2] = "/"}

\* normalizeUrl, buildSearchParams and buildUrl have been applied
Built == fnPc = "done" /\ input.fn = "buildUrl"

\* C14: normalizeUrl and buildUrl give the same result for the four
\* combinations of (base with / without one trailing slash) x (path with /
\* without one leading slash): the base without its trailing slash, one
\* '/', the path without its leading slash; the '://' of the base is left
\* unchanged.
C14_FourSlashCombinations ==
  (/\ Built
   /\ ~endsWith(WithoutTrailing(input.baseUrl), "/")
   /\ ~startsWith(WithoutLeading(input.path), "/")) =>
    LET joined == WithoutTrailing(input.baseUrl) \o <<"/">> \o WithoutLeading(input.path)
    IN /\ output.normalized = joined
       /\ HasPrefix(output.url, joined)
       /\ input.params = <<>> => output.url = joined
       /\ SchemeAt(output.normalized) = SchemeAt(input.baseUrl)
       /\ SchemeAt(output.url) = SchemeAt(input.baseUrl)

\* a base with a trailing slash joined to a path with a leading slash,
\* with a query
C14_Witness ==
  /\ Built
  /\ input.baseUrl = SiteBase \o <<"/">>
  /\ input.path = <<"/", "posts">>
  /\ input.params # <<>>

AtMostOneSlash ==
  /\ StripTrailing(input.baseUrl) = WithoutTrailing(input.baseUrl)
  /\ StripLeading(input.path) = WithoutLeading(input.path)

C15_SeveralSlashesKept ==
  (Built /\ endsWith(WithoutTrailing(input.baseUrl), "/")) =>
    output.normalized[Len(input.baseUrl)] = "/"
      /\ output.normalized[Len(input.baseUrl) - 1] = "/"

\* no "//" in text after the "://" of the site
NoDoubleSlash(text) ==
  \A i \in (Len(SiteBase) + 1)..(Len(text) - 1) : ~(text[i] = "/" /\ text[i + 1] = "/")

\* the base with its trailing slash added or removed
Toggled(baseUrl) ==
  IF endsWith(baseUrl, "/") THEN WithoutTrailing(baseUrl) ELSE baseUrl \o <<"/">>

\* a base address that is well-formed apart from an optional trailing slash
WellFormedBase(baseUrl) ==
  /\ ~endsWith(WithoutTrailing(baseUrl), "/")
  /\ NoDoubleSlash(WithoutTrailing(baseUrl))

\* C16: the URL every endpoint method sends to the transport is the same
\* whether the configured baseUrl ends with a trailing slash or not, and
\* never contains '//' after the host part.
C16_EndpointUrlsNormalized ==
  (fnPc = "done" /\ input.fn = "endpoint" /\ WellFormedBase(input.baseUrl)) =>
    /\ output.url = EndpointUrl(input.endpoint, Toggled(input.baseUrl))
    /\ NoDoubleSlash(output.url)

\* C16 holds of the methods that reach fetch through makeApiRequest
C16_ThroughBuildUrl ==
  (/\ fnPc = "done"
   /\ input.fn = "endpoint"
   /\ WellFormedBase(input.baseUrl)
   /\ input.endpoint.how = "buildUrl") =>
    /\ output.url = EndpointUrl(input.endpoint, Toggled(input.baseUrl))
    /\ NoDoubleSlash(output.url)

\* ------------------------------------- claims about buildSearchParams

\* the position of key in the mapping
KeyIndex(params, key) == CHOOSE j \in 1..Len(params) : params[j][1] = key

\* the entries emitted under key, in order
EntriesFor(entries, key) == SelectSeq(entries, LAMBDA e : e.key = key)

\* the text of a list element
ElementText(element) == IF element.t = "num" THEN ToString(element.n) ELSE element.s

\* text is the elements joined by commas in list order
CommaJoined(text, elements) ==
  /\ Len(text) = 2 * Len(elements) - 1
  /\ \A i \in 1..Len(text) :
       text[i] = IF i % 2 = 1 THEN ElementText(elements[(i + 1) \div 2]) ELSE ","

\* C17: buildSearchParams emits entries in the insertion order of the
\* mapping and skips keys whose value is undefined; a '_fields' list yields
\* exactly one '_fields' entry, its elements joined by commas in list
\* order; every other list-valued key yields one entry per element, in
\* list order; an empty list yields no entry; buildUrl appends '?' plus
\* the query only when at least one entry was emitted.
C17_SearchParams ==
  Built =>
    LET E == output.entries
        P == input.params
    IN /\ \A i \in 1..Len(E) : \E j \in 1..Len(P) : P[j][1] = E[i].key
       /\ \A i, j \in 1..Len(E) :
            i < j => KeyIndex(P, E[i].key) <= KeyIndex(P, E[j].key)
       /\ \A j \in 1..Len(P) :
            LET k == P[j][1]
                v == P[j][2]
                F == EntriesFor(E, k)
            IN /\ v = Undefined => F = <<>>
               /\ (IsList(v) /\ Elements(v) = <<>>) => F = <<>>
               /\ (k = "_fields" /\ IsList(v) /\ Elements(v) # <<>>) =>
                    Len(F) = 1 /\ CommaJoined(F[1].value, Elements(v))
               /\ (k # "_fields" /\ IsList(v)) =>
                    /\ Len(F) = Len(Elements(v))
                    /\ \A i \in 1..Len(F) : F[i].value = <<ElementText(Elements(v)[i])>>
       /\ HasPrefix(output.url, output.normalized)
       /\ IF Len(E) > 0
            THEN /\ Len(output.url) > Len(output.normalized) + 1
                 /\ output.url[Len(output.normalized) + 1] = "?"
            ELSE output.url = output.normalized

\* a '_fields' list and another list, both with two elements out of
\* alphabetical order, were serialized
C17_Witness ==
  /\ Built
  /\ input.params = <<<<"_fields", Strs(<<"title", "id">>)>>,
                      <<"categories", Nums(<<2, 1>>)>>>>

\* C18: for the '_embed' key buildSearchParams emits the single entry
\* _embed=true when the value is true, and no '_embed' entry at all when
\* the value is false or absent.
C18_EmbedOnlyWhenTrue ==
  Built =>
    LET F == EntriesFor(output.entries, "_embed")
        P == input.params
    IN /\ (\E j \in 1..Len(P) : P[j] = <<"_embed", Bool(TRUE)>>) =>
            F = <<Entry("_embed", <<"true">>)>>
       /\ (\/ \A j \in 1..Len(P) : P[j][1] # "_embed"
           \/ \E j \in 1..Len(P) : P[j] = <<"_embed", Bool(FALSE)>>) => F = <<>>

\* what the code does with _embed: false: the entry _embed=false
C18_FalseIsSerialized ==
  (Built /\ \E j \in 1..Len(input.params) : input.params[j] = <<"_embed", Bool(FALSE)>>) =>
    EntriesFor(output.entries, "_embed") = <<Entry("_embed", <<"false">>)>>

\* ------------------------------------------------ claims about WPApiError

\* C19: the classification getters depend only on status: isClientError
\* iff 400 <= status < 500, isServerError iff 500 <= status < 600,
\* isAuthError iff status is 401 or 403, isNotFound iff status = 404,
\* isRateLimitError iff status = 429; so isClientError and isServerError
\* are never both true, and each of isAuthError, isNotFound and
\* isRateLimitError implies isClientError.
C19_Classification ==
  (fnPc = "done" /\ input.fn \in {"new", "fromResponse"} /\ output.kind = "returned") =>
    LET s == output.status
        is == output.is
    IN /\ s = input.status
       /\ "isClientError" \in is <=> (400 <= s /\ s < 500)
       /\ "isServerError" \in is <=> (500 <= s /\ s < 600)
       /\ "isAuthError" \in is <=> s \in {401, 403}
       /\ "isNotFound" \in is <=> s = 404
       /\ "isRateLimitError" \in is <=> s = 429
       /\ ~("isClientError" \in is /\ "isServerError" \in is)
       /\ is \cap {"isAuthError", "isNotFound", "isRateLimitError"} # {} =>
            "isClientError" \in is

\* an error of status 500 and one of status 403 were classified
C19_Witness ==
  /\ fnPc = "done"
  /\ input.fn = "new"
  /\ \/ output.status = 500 /\ output.is = {"isServerError"}
     \/ output.status = 403 /\ output.is = {"isClientError", "isAuthError"}

\* the payload C20 speaks of: the parsed body when the content-type
\* contains application/json and the body parses, else empty
PayloadOf(r) ==
  IF (\E i \in 1..Len(r.contentType) : r.contentType[i] = "application/json")
       /\ r.body.json \in {"object", "null", "array"}
    THEN r.body
    ELSE [json |-> "object", message |-> <<>>, code |-> <<>>, data |-> <<>>]

\* what C20 says of the error returned for the response of the call
AsC20Says ==
  LET r == input.response
      payload == PayloadOf(r)
  IN /\ output.kind = "returned"
     /\ output.name = "WPApiError"
     /\ output.status = r.status
     /\ output.code = payload.code
     /\ output.data = payload.data
     /\ output.message =
          (IF Len(payload.message) = 1 /\ payload.message[1] # "" THEN payload.message[1]
           ELSE IF r.statusText # "" THEN r.statusText
           ELSE "Unknown error")

\* C20: fromResponse never throws: it parses the body as JSON only when
\* the content-type contains application/json, treats a parse failure or a
\* non-JSON content-type as an empty payload, and returns an error whose
\* status is the response status, whose code and data are the parsed code
\* and data, and whose message is the parsed message if non-empty, else
\* the status text if non-empty, else 'Unknown error'.
C20_FromResponseNeverThrows ==
  (fnPc = "done" /\ input.fn = "fromResponse") => AsC20Says

\* C20 holds of every response whose JSON body is not the literal null
C20_ExceptNullBody ==
  (/\ fnPc = "done"
   /\ input.fn = "fromResponse"
   /\ ~(PayloadOf(input.response).json = "null")) => AsC20Says

\* ------------------------------------------- claims about the hooks

\* C26: beforeRequest (when present) has completed before the send it
\* precedes; afterRequest (when present) is invoked only for an OK
\* response, exactly once per successful call, after the transport resolved
\* and before the response is handed back; it is never invoked for a
\* non-OK response.
C26_HookOrder ==
  /\ \A j \in 1..Len(log) :
       (log[j].ev = "send" /\ auth.beforeRequest) =>
         j > 1 /\ log[j - 1].ev = "beforeRequest"
  /\ \A j \in 1..Len(log) :
       log[j].ev = "afterRequest" =>
         /\ auth.afterRequest
         /\ j > 1 /\ log[j - 1].ev = "response" /\ Ok(log[j - 1].status)
         /\ j = Len(log)
         /\ pc = "done" /\ outcome.kind = "resolved"
  /\ Count("afterRequest") <= 1
  /\ (pc = "done" /\ outcome.kind = "resolved" /\ auth.afterRequest) =>
       Count("afterRequest") = 1 /\ outcome.via = "afterRequest"
  /\ (pc = "done" /\ outcome.kind = "rejected") => Count("afterRequest") = 0

\* a call with both hooks that succeeded on its second send
C26_Witness ==
  /\ pc = "done"
  /\ outcome.kind = "resolved"
  /\ auth.beforeRequest /\ auth.afterRequest
  /\ Len(sent) = 2
  /\ Count("beforeRequest") = 2
  /\ Count("afterRequest") = 1

\* the AuthResponse has the hooks of the provider of some method of
\* createAuth: none of them defines shouldRefresh or afterRequest
FromCreateAuth ==
  \E m \in AuthMethods :
    {h \in {"beforeRequest", "afterRequest", "shouldRefresh", "refresh"} : auth[h]}
      = ProviderHooks(m)

\* C28: with an AuthResponse returned by createAuth no shouldRefresh hook
\* exists, so the call invokes the transport exactly once and never
\* refresh, whatever the status; a 401 is raised as a WPApiError without
\* any retry.
C28_CreateAuthNeverRetries ==
  FromCreateAuth =>
    /\ ~auth.shouldRefresh
    /\ Len(sent) <= 1
    /\ Count("refresh") = 0
    /\ pc = "done" => Len(sent) = 1
    /\ (pc = "done" /\ response.status = 401) =>
         /\ outcome.kind = "rejected"
         /\ outcome.name = "WPApiError"
         /\ outcome.status = 401

\* C28 but for the error raised on a body that is the JSON literal null
C28_ExceptNullBody ==
  FromCreateAuth =>
    /\ ~auth.shouldRefresh
    /\ Len(sent) <= 1
    /\ Count("refresh") = 0
    /\ pc = "done" => Len(sent) = 1
    /\ (pc = "done" /\ response.status = 401 /\ ~response.nullBody) =>
         /\ outcome.kind = "rejected"
         /\ outcome.name = "WPApiError"
         /\ outcome.status = 401

\* every send of the call has the URL, verb, body and signal of the first
SameRequestEverySend ==
  \A i \in 1..Len(sent) :
    /\ sent[i].url = sent[1].url
    /\ sent[i].method = sent[1].method
    /\ sent[i].body = sent[1].body
    /\ sent[i].signal = sent[1].signal

\* C29 as stated: across one call the number of beforeRequest invocations
\* equals the number of sends, and the number of refresh invocations (when
\* a refresh hook exists) equals the number of sends minus one on success;
\* every send uses the URL, verb, body and signal of the first.
C29_Original ==
  /\ pc = "done" => Count("beforeRequest") = Len(sent)
  /\ (pc = "done" /\ outcome.kind = "resolved" /\ auth.refresh) =>
       Count("refresh") = Len(sent) - 1
  /\ SameRequestEverySend

\* C29: across one call the number of beforeRequest invocations (when a
\* beforeRequest hook exists) equals the number of sends, and the number of
\* refresh invocations (when a refresh hook exists) equals the number of
\* sends minus one on success; every send uses the URL, verb, body and
\* signal of the first.
C29_HooksPerSend ==
  /\ (pc = "done" /\ auth.beforeRequest) => Count("beforeRequest") = Len(sent)
  /\ (pc = "done" /\ ~auth.beforeRequest) => Count("beforeRequest") = 0
  /\ (pc = "done" /\ outcome.kind = "resolved" /\ auth.refresh) =>
       Count("refresh") = Len(sent) - 1
  /\ SameRequestEverySend

\* a call with a body and a signal that succeeded on its third send, with
\* both hooks
C29_Witness ==
  /\ pc = "done"
  /\ outcome.kind = "resolved"
  /\ auth.beforeRequest /\ auth.refresh
  /\ config.body /\ config.signal # NoSignal /\ config.method = "PATCH"
  /\ Len(sent) = 3
  /\ Count("refresh") = 2

\* --------------------------------- claims about pagination metadata

\* the answer carries neither X-WP-Total nor X-WP-TotalPages
NoPaginationHeaders(headers) ==
  headers.total = NoHeader /\ headers.totalPages = NoHeader

\* the i-th Paginated Result reports a single page
SinglePage(i) == pgYielded[i].totalPages = 1 /\ ~pgYielded[i].hasMore

\* C23: when a list response carries neither X-WP-Total nor
\* X-WP-TotalPages, the Paginated Result has totalPages = 1 and hasMore =
\* false, for the generic header-based lists as well as for the
\* taxonomies / post-types lists.
C23_DefaultsWithoutHeaders ==
  \A i \in 1..Len(pgYielded) : NoPaginationHeaders(pgHeaders[i]) => SinglePage(i)

\* C23 holds of the taxonomies / post-types lists
C23_OfRecordList ==
  pgList = "record" =>
    \A i \in 1..Len(pgYielded) : NoPaginationHeaders(pgHeaders[i]) => SinglePage(i)

\* what the generic lists report without headers: no page at all
C23_GenericReportsZero ==
  pgList = "generic" =>
    \A i \in 1..Len(pgYielded) :
      NoPaginationHeaders(pgHeaders[i]) =>
        pgYielded[i].totalPages = 0 /\ pgYielded[i].total = 0 /\ ~pgYielded[i].hasMore

\* C24: the list of taxonomies and of post types reports a single page for
\* every response: totalPages = 1 and hasMore = false, also when the
\* response carries an X-WP-TotalPages header greater than 1.
C24_RecordListSinglePage ==
  pgList = "record" => \A i \in 1..Len(pgYielded) : SinglePage(i)

\* what the record lists report: hasMore = false always, totalPages as the
\* header says when there is one
C24_TotalPagesFromHeader ==
  pgList = "record" =>
    \A i \in 1..Len(pgYielded) :
      /\ ~pgYielded[i].hasMore
      /\ pgYielded[i].totalPages =
           (IF pgHeaders[i].totalPages = NoHeader THEN 1 ELSE pgHeaders[i].totalPages)

\* ------------------------- claims about the iterators and listAll loops

\* pages() of the shared helper or of a factory, or a sequential listAll
Iterating == pgKind \in {"helperPages", "factoryPages", "factoryListAll"}

\* what C22 asks of an iteration
StopsExactlyOnHasMoreFalse ==
  /\ \A i \in 1..Len(pgYielded) : ~pgYielded[i].hasMore => Len(pgRequested) <= i
  /\ pgPc = "done" => Len(pgYielded) >= 1 /\ ~pgYielded[Len(pgYielded)].hasMore
  /\ (pgPc = "yielded" /\ ~pgYielded[Len(pgYielded)].hasMore) => ENABLED PagesReturn
  /\ (/\ pgPc = "yielded"
      /\ pgYielded[Len(pgYielded)].hasMore
      /\ Len(pgRequested) < MaxFetches) => ENABLED PagesNext

\* C22: an iteration of pages(), and a sequential listAll, ends as soon as
\* some fetched page reports hasMore = false, and keeps requesting the next
\* page, without any cap, for as long as every fetched page reports
\* hasMore = true.
C22_StopsOnHasMoreFalse == Iterating => StopsExactlyOnHasMoreFalse

\* C22 holds of every iteration over a generic (header-based) list
C22_OverGenericList == (Iterating /\ pgList = "generic") => StopsExactlyOnHasMoreFalse

\* the i-th fetch of a helper asks for page i
HelperChosenPage(calls) == \A i \in 1..Len(calls) : calls[i].page = i

\* C25: every page fetch of listAll uses a page number chosen by the helper
\* and per_page = 100, whatever page / per_page the caller put in params;
\* every page fetch of pages() uses a page number chosen by the helper and
\* the caller's per_page unchanged; every other caller parameter is passed
\* unchanged to every fetch.
C25_HelperControlsPaging ==
  /\ HelperChosenPage(laCalls)
  /\ \A i \in 1..Len(laCalls) :
       laCalls[i].per_page = MaxPerPage /\ laCalls[i].search = laParams.search
  /\ HelperChosenPage(pgCalls)
  /\ \A i \in 1..Len(pgCalls) :
       /\ pgCalls[i].search = pgParams.search
       /\ pgKind = "factoryListAll" => pgCalls[i].per_page = MaxPerPage
       /\ pgKind \in {"helperPages", "factoryPages"} =>
            pgCalls[i].per_page = pgParams.per_page

\* the caller gave page = 2, per_page = 10 and a search term; listAll and
\* pages() each fetched two pages or more
C25_Witness ==
  /\ laParams = [page |-> 2, per_page |-> 10, search |-> "wp"]
  /\ pgKind = "helperPages"
  /\ Len(laCalls) >= 2
  /\ Len(pgCalls) >= 2

\* the sequential listAll of a factory collects one page after the other
\* as well
C25_SequentialWitness ==
  /\ pgParams = [page |-> 2, per_page |-> 10, search |-> "wp"]
  /\ pgKind = "factoryListAll"
  /\ Len(pgCalls) >= 2

\* the number of pages the source reports in a header; none reads as 0
SourceTotalPages(headers) ==
  IF headers.totalPages = NoHeader THEN 0 ELSE headers.totalPages

\* both listAll returned, against a source that reported the same
\* totalPages in every answer and hasMore = currentPage < totalPages
BothListAllReturned ==
  /\ pgKind = "factoryListAll"
  /\ pgPc = "done"
  /\ laResult.kind = "resolved"
  /\ \A i \in 1..Len(pgHeaders) : SourceTotalPages(pgHeaders[i]) = laTotalPages
  /\ \A i \in 1..Len(pgYielded) :
       pgYielded[i].hasMore = (pgYielded[i].currentPage < pgYielded[i].totalPages)

\* the page requests of a call: page and per_page of each
PagesOf(calls) == {<<calls[i].page, calls[i].per_page>> : i \in 1..Len(calls)}

\* C30: against a source whose pages and totalPages do not change during the
\* call and whose hasMore equals currentPage < totalPages, the sequential
\* listAll of a factory and the shared concurrent helper's listAll return
\* the same item sequence and issue the same set of page requests: pages
\* 1..max(1, totalPages), each with per_page = 100.
C30_ListAllEquivalent ==
  BothListAllReturned =>
    /\ pgItems = laResult.items
    /\ PagesOf(pgCalls) = PagesOf(laCalls)
    /\ PagesOf(laCalls) =
         {<<p, MaxPerPage>> : p \in 1..(IF laTotalPages > 1 THEN laTotalPages ELSE 1)}

\* both returned the items of all the pages of a source of several pages
C30_Witness ==
  /\ BothListAllReturned
  /\ laTotalPages = MaxPages
  /\ Len(pgItems) = Len(PageItems(1)) * MaxPages

\* both returned the first page of a source that reports no page at all
C30_NoPageWitness == BothListAllReturned /\ laTotalPages = 0 /\ pgItems = PageItems(1)

\* --------------------------------------- claims about the sitemap calls

\* the call was answered with a response
SitemapGotResponse == fnPc = "done" /\ output.answered # 0

\* C21: for sitemapIndex and sitemap, a non-2xx response that is not
\* resolved by a refresh-and-retry ends the call with a WPApiError carrying
\* the response status; the response text is returned only for an OK
\* response.
C21_SitemapErrors ==
  SitemapGotResponse =>
    /\ ~Ok(output.answered) =>
         /\ output.outcome.kind = "rejected"
         /\ output.outcome.name = "WPApiError"
         /\ output.outcome.status = output.answered
    /\ output.outcome.kind = "resolved" => Ok(output.answered)

\* what the sitemap calls do: one fetch without headers, and the text of
\* the response is returned whatever its status
C21_AsCoded ==
  /\ fnPc \in {"fetch", "done"} =>
       /\ Len(output.sent) = 1
       /\ output.sent[1].headers = NoHeaders
       /\ output.sent[1].signal = input.signal
  /\ SitemapGotResponse => output.outcome = ResponseText(output.answered)

\* the sitemap index of a site is looked up at the root of the site,
\* wherever the REST base ends
C21_IndexAtSiteRoot ==
  (/\ fnPc \in {"fetch", "done"}
   /\ input.op = "sitemapIndex"
   /\ input.siteBaseUrl = NoSiteBase
   /\ input.baseUrl \in {SiteBase, SiteBase \o <<"/">>, SiteBase \o <<"/", "wp-json">>,
                         SiteBase \o <<"/", "wp-json", "/">>})
    => output.sent[1].url = SiteBase \o <<"/", "sitemap_index.xml">>

\* a sitemap call resolved with the text of a 404 response
C21_TextOfNotFound ==
  SitemapGotResponse /\ output.answered = 404 /\ output.outcome.kind = "resolved"

\* ------------------------------------ claims about concurrent requests

\* the requests whose refresh is in flight
Refreshing == {r \in Requests : ccPc[r] = "refresh"}

\* C27: refresh is neither deduplicated nor serialized across requests: when
\* k concurrent requests sharing one AuthResponse each receive a non-OK
\* response for which shouldRefresh is true, refresh is invoked k times, once
\* per request; a request never waits for the refresh of another one, so
\* the invocations may be in flight together and a request may be sent with
\* headers read before the refresh of another request completed.
C27_RefreshPerRequest ==
  /\ \A r \in Requests : ccPc[r] # "response" => ccRefreshes[r] = Refusals(r)
  /\ \A r \in Requests :
       (/\ ccPc[r] = "response"
        /\ ~Ok(Last(ccAnswers[r]))
        /\ ShouldRefresh(Last(ccAnswers[r]))) => ENABLED RefreshBegins(r)
  /\ \A r \in Requests : ccPc[r] = "start" => ENABLED ConcurrentSend(r)
  /\ Total(ccRefreshes, Requests) = (ccAuth - FirstToken) + Cardinality(Refreshing)

\* every request was refused once and all their refreshes are in flight
C27_Witness ==
  /\ \A r \in Requests : Len(ccAnswers[r]) = 1 /\ Refusals(r) = 1
  /\ Refreshing = Requests
  /\ Total(ccRefreshes, Requests) = NumRequests

\* a request is in flight with a credential that a refresh of another
\* request has replaced since
C27_StaleHeaders ==
  \E r \in Requests :
    /\ ccPc[r] = "fetch"
    /\ Last(ccSent[r]) < ccAuth
    /\ ccRefreshes[r] = 0

\* a refresh is in flight while another request reads the headers and sends
C27_SendDuringRefresh ==
  \E r, q \in Requests :
    /\ r # q
    /\ ccPc[q] = "refresh"
    /\ ccPc[r] = "fetch"
    /\ Last(ccSent[r]) = ccAuth

vars == <<reqVars, laVars, pgVars, caVars, fnVars, ccVars>>

\* one call of makeApiRequest, directly or through a wrapper
Init == InitRequest /\ ParkListAll /\ ParkPaging /\ ParkCreateAuth /\ ParkFn
  /\ ParkConcurrent

Next ==
  \/ BeforeRequest /\ UNCHANGED <<laVars, pgVars, caVars, fnVars, ccVars>>
  \/ Send /\ UNCHANGED <<laVars, pgVars, caVars, fnVars, ccVars>>
  \/ \E status \in Statuses, nullBody \in BOOLEAN :
       FetchResolve(status, nullBody) /\ UNCHANGED <<laVars, pgVars, caVars, fnVars, ccVars>>
  \/ \E e \in {AbortError, NetworkError} : FetchReject(e) /\ UNCHANGED <<laVars, pgVars, caVars, fnVars, ccVars>>
  \/ RefreshAndRetry /\ UNCHANGED <<laVars, pgVars, caVars, fnVars, ccVars>>
  \/ RaiseApiError /\ UNCHANGED <<laVars, pgVars, caVars, fnVars, ccVars>>
  \/ ReturnResponse /\ UNCHANGED <<laVars, pgVars, caVars, fnVars, ccVars>>

Spec == Init /\ [][Next]_vars

\* one call of the shared helper's listAll
InitLA == InitListAll /\ ParkRequest /\ ParkPaging /\ ParkCreateAuth /\ ParkFn
  /\ ParkConcurrent

NextLA ==
  \/ ListAllCall /\ UNCHANGED <<reqVars, pgVars, caVars, fnVars, ccVars>>
  \/ FirstPageFails /\ UNCHANGED <<reqVars, pgVars, caVars, fnVars, ccVars>>
  \/ FirstPageOnly /\ UNCHANGED <<reqVars, pgVars, caVars, fnVars, ccVars>>
  \/ FanOut /\ UNCHANGED <<reqVars, pgVars, caVars, fnVars, ccVars>>
  \/ \E p \in 2..MaxPages : PageResolves(p) /\ UNCHANGED <<reqVars, pgVars, caVars, fnVars, ccVars>>
  \/ \E p \in 2..MaxPages : PageFails(p) /\ UNCHANGED <<reqVars, pgVars, caVars, fnVars, ccVars>>

SpecListAll == InitLA /\ [][NextLA]_vars

\* one list call, or one iteration of pages()
InitPG == InitPaging /\ ParkRequest /\ ParkListAll /\ ParkCreateAuth /\ ParkFn
  /\ ParkConcurrent

NextPG ==
  \/ ListCall /\ UNCHANGED <<reqVars, laVars, caVars, fnVars, ccVars>>
  \/ PagesFirst /\ UNCHANGED <<reqVars, laVars, caVars, fnVars, ccVars>>
  \/ \E headers \in ResponseHeaders : PageArrives(headers) /\ UNCHANGED <<reqVars, laVars, caVars, fnVars, ccVars>>
  \/ PageFetchFails /\ UNCHANGED <<reqVars, laVars, caVars, fnVars, ccVars>>
  \/ PagesNext /\ UNCHANGED <<reqVars, laVars, caVars, fnVars, ccVars>>
  \/ PagesReturn /\ UNCHANGED <<reqVars, laVars, caVars, fnVars, ccVars>>

SpecPaging == InitPG /\ [][NextPG]_vars

\* one call of createAuth
InitCA == InitCreateAuth /\ ParkRequest /\ ParkListAll /\ ParkPaging /\ ParkFn
  /\ ParkConcurrent

NextCA ==
  \/ CreateAuthThrows /\ UNCHANGED <<reqVars, laVars, pgVars, fnVars, ccVars>>
  \/ CreateAuthReturns /\ UNCHANGED <<reqVars, laVars, pgVars, fnVars, ccVars>>

SpecCreateAuth == InitCA /\ [][NextCA]_vars

\* one call of a provider of AuthProviders
InitAP == InitProviders /\ ParkRequest /\ ParkListAll /\ ParkPaging /\ ParkCreateAuth
  /\ ParkConcurrent

NextAP ==
  \/ ProviderThrows /\ UNCHANGED <<reqVars, laVars, pgVars, caVars, ccVars>>
  \/ ProviderReturns /\ UNCHANGED <<reqVars, laVars, pgVars, caVars, ccVars>>

SpecProviders == InitAP /\ [][NextAP]_vars

\* one application of the URL builder, directly or by an endpoint method
InitURL == InitBuildUrl /\ ParkRequest /\ ParkListAll /\ ParkPaging /\ ParkCreateAuth
  /\ ParkConcurrent

NextURL ==
  \/ BuildUrl /\ UNCHANGED <<reqVars, laVars, pgVars, caVars, ccVars>>
  \/ EndpointRequest /\ UNCHANGED <<reqVars, laVars, pgVars, caVars, ccVars>>

SpecUrl == InitURL /\ [][NextURL]_vars

\* one construction of a WPApiError, directly or by fromResponse
InitWE == InitErrors /\ ParkRequest /\ ParkListAll /\ ParkPaging /\ ParkCreateAuth
  /\ ParkConcurrent

NextWE ==
  \/ Construct /\ UNCHANGED <<reqVars, laVars, pgVars, caVars, ccVars>>
  \/ FromResponseThrows /\ UNCHANGED <<reqVars, laVars, pgVars, caVars, ccVars>>
  \/ FromResponseReturns /\ UNCHANGED <<reqVars, laVars, pgVars, caVars, ccVars>>

SpecErrors == InitWE /\ [][NextWE]_vars

\* one caller runs the shared helper's listAll and then, with the same
\* params, an iteration of pages() or a sequential listAll, against a
\* source that answers every page of the iteration with the same headers
ListAllSettled ==
  laPc = "done" /\ \A p \in DOMAIN laFetch : laFetch[p] # "pending"

SteadySource(headers) == IF pgHeaders = <<>> THEN TRUE ELSE headers = pgHeaders[1]

InitHelpers ==
  /\ InitListAll
  /\ InitPaging
  /\ pgKind # "list"
  /\ pgParams = laParams
  /\ laOptions = NoOptions
  /\ ParkRequest /\ ParkCreateAuth /\ ParkFn /\ ParkConcurrent

NextHelpers ==
  \/ ListAllCall /\ UNCHANGED <<reqVars, pgVars, caVars, fnVars, ccVars>>
  \/ FirstPageFails /\ UNCHANGED <<reqVars, pgVars, caVars, fnVars, ccVars>>
  \/ FirstPageOnly /\ UNCHANGED <<reqVars, pgVars, caVars, fnVars, ccVars>>
  \/ FanOut /\ UNCHANGED <<reqVars, pgVars, caVars, fnVars, ccVars>>
  \/ \E p \in 2..MaxPages : PageResolves(p) /\ UNCHANGED <<reqVars, pgVars, caVars, fnVars, ccVars>>
  \/ \E p \in 2..MaxPages : PageFails(p) /\ UNCHANGED <<reqVars, pgVars, caVars, fnVars, ccVars>>
  \/ ListAllSettled /\ PagesFirst /\ UNCHANGED <<reqVars, laVars, caVars, fnVars, ccVars>>
  \/ \E headers \in ResponseHeaders :
       SteadySource(headers) /\ PageArrives(headers) /\ UNCHANGED <<reqVars, laVars, caVars, fnVars, ccVars>>
  \/ PageFetchFails /\ UNCHANGED <<reqVars, laVars, caVars, fnVars, ccVars>>
  \/ PagesNext /\ UNCHANGED <<reqVars, laVars, caVars, fnVars, ccVars>>
  \/ PagesReturn /\ UNCHANGED <<reqVars, laVars, caVars, fnVars, ccVars>>

SpecHelpers == InitHelpers /\ [][NextHelpers]_vars

\* one call of sitemapIndex or sitemap
InitSM == InitSitemap /\ ParkRequest /\ ParkListAll /\ ParkPaging /\ ParkCreateAuth
  /\ ParkConcurrent

NextSM ==
  \/ SitemapFetch /\ UNCHANGED <<reqVars, laVars, pgVars, caVars, ccVars>>
  \/ \E status \in Statuses : SitemapAnswered(status) /\ UNCHANGED <<reqVars, laVars, pgVars, caVars, ccVars>>
  \/ \E e \in {AbortError, NetworkError} :
       SitemapFetchRejects(e) /\ UNCHANGED <<reqVars, laVars, pgVars, caVars, ccVars>>

SpecSitemap == InitSM /\ [][NextSM]_vars

\* NumRequests calls of makeApiRequest with one AuthResponse, interleaved
\* at their awaits
InitCC ==
  InitConcurrent /\ ParkRequest /\ ParkListAll /\ ParkPaging /\ ParkCreateAuth /\ ParkFn

NextCC ==
  \/ \E r \in Requests : ConcurrentSend(r) /\ UNCHANGED <<reqVars, laVars, pgVars, caVars, fnVars>>
  \/ \E r \in Requests, status \in Statuses :
       ConcurrentAnswer(r, status) /\ UNCHANGED <<reqVars, laVars, pgVars, caVars, fnVars>>
  \/ \E r \in Requests : RefreshBegins(r) /\ UNCHANGED <<reqVars, laVars, pgVars, caVars, fnVars>>
  \/ \E r \in Requests : RefreshEnds(r) /\ UNCHANGED <<reqVars, laVars, pgVars, caVars, fnVars>>
  \/ \E r \in Requests : ConcurrentRaise(r) /\ UNCHANGED <<reqVars, laVars, pgVars, caVars, fnVars>>
  \/ \E r \in Requests : ConcurrentReturn(r) /\ UNCHANGED <<reqVars, laVars, pgVars, caVars, fnVars>>

SpecConcurrent == InitCC /\ [][NextCC]_vars

====
